---- MODULE Spec2Model ----
(***************************************************************************)
(* Declaration scoring of the edit-prediction context crate.               *)
(*                                                                         *)
(*   declaration.rs          Declaration, item_text, signature_text,       *)
(*                           expand_range_to_line_boundaries_and_truncate, *)
(*                           FileDeclaration / BufferDeclaration           *)
(*   declaration_scoring.rs  scored_snippets, range_intersection,          *)
(*                           score_snippet, ScoreInputs::score             *)
(*                                                                         *)
(* Texts are sequences of one-byte characters; offsets are 0-based as in   *)
(* the source, so the byte at offset o is text[o + 1].  f32 values are     *)
(* modelled as exact fractions <<numerator, denominator>> with a positive  *)
(* denominator.                                                            *)
(***************************************************************************)
EXTENDS Integers, Sequences, FiniteSets, TLC

VARIABLES
    index,          \* SyntaxIndex: identifier -> declarations, insertion order
    buffers,        \* buffer id -> [text, alive]: the Entity<Buffer> behind each WeakEntity
    request,        \* the arguments of one scored_snippets call
    pc,             \* "scoring" | "done" | "panicked"
    remaining,      \* identifiers of identifier_to_references not yet consumed
    out,            \* snippets collected so far
    score_inputs,   \* ScoreInputs values handed to ScoreInputs::score
    score_outputs,  \* the Scores returned for them
    outline_declaration, \* the OutlineDeclaration handed to from_outline
    built,          \* [file, buffer]: the Declaration built from it, per variant
    texts,          \* [file, buffer]: what item_text and signature_text returned
    disk,           \* project file -> the content it has on disk, if it exists
    extraction,     \* project file -> the outline extraction in flight for it, if any
    run_input,      \* the arguments and files of one `zeta_context run`
    excerpt_ranges, \* what ExcerptRangesInput::select returned
    planned_prompt, \* what PromptPlanner::populate returned
    printed,        \* the prompt string written to stdout
    logged,         \* the errors written to the log
    mentions,       \* a URI string or MentionUri value, followed by what parse
                    \* and to_uri made of it in turn
    candidate_sets, \* match_path_sets: the length of each candidate set
    num_cpus,       \* match_path_sets: the number of segment workers
    segments,       \* segment worker -> its place in the loop and what it examined
    cancel_flag,    \* the AtomicBool the caller may set
    returned,       \* match_path_sets: the candidates its result is drawn from
    superseded_pc,        \* scored_declaration.rs: where its scored_snippets call is
    superseded_remaining, \* the identifiers that call has still to score
    superseded_out        \* the snippets that call has collected

scoringVars == <<index, buffers, request, pc, remaining, out>>
scoreVars == <<score_inputs, score_outputs>>
declarationVars == <<outline_declaration, built, texts>>
indexingVars == <<disk, extraction>>
runVars == <<run_input, excerpt_ranges, planned_prompt, printed, logged>>
mentionVars == <<mentions>>
fuzzyVars == <<candidate_sets, num_cpus, segments, cancel_flag, returned>>

supersededVars == <<superseded_pc, superseded_remaining, superseded_out>>

vars == <<scoringVars, scoreVars, declarationVars, indexingVars, runVars,
          mentionVars, fuzzyVars, supersededVars>>

----------------------------------------------------------------------------
(* Arithmetic on fractions *)

Min(a, b) == IF a <= b THEN a ELSE b
Max(a, b) == IF a >= b THEN a ELSE b
Abs(a) == IF a < 0 THEN -a ELSE a

RInt(n) == <<n, 1>>
RMul(x, y) == <<x[1] * y[1], x[2] * y[2]>>
RAdd(x, y) == <<x[1] * y[2] + y[1] * x[2], x[2] * y[2]>>
RDivInt(x, n) == <<x[1], x[2] * n>>
RInv(x) == <<x[2], x[1]>>
REq(x, y) == x[1] * y[2] = y[1] * x[2]
RLeq(x, y) == x[1] * y[2] <= y[1] * x[2]
RZero(x) == x[1] = 0

----------------------------------------------------------------------------
(* text::BufferSnapshot: offsets, points, text_for_range *)

NewlineCount(text, upto) ==
    Cardinality({i \in 1..Min(upto, Len(text)) : text[i] = "\n"})

\* offset.to_point(snapshot).row
RowOfOffset(text, offset) == NewlineCount(text, offset)

\* Point::new(row, 0).to_offset(snapshot), clipped to the end of the text
RowStartOffset(text, row) ==
    IF row = 0 THEN 0
    ELSE IF NewlineCount(text, Len(text)) < row THEN Len(text)
    ELSE CHOOSE o \in 1..Len(text) :
            text[o] = "\n" /\ NewlineCount(text, o) = row

TextForRange(text, range) ==
    SubSeq(text, Min(range[1], Len(text)) + 1, Min(range[2], Len(text)))

ClipOffset(text, offset) == Min(offset, Len(text))

----------------------------------------------------------------------------
(* text_similarity: identifier multisets and the two similarity measures *)

IdentifierChars == {"a", "b", "c"}

RECURSIVE TokensFrom(_, _, _)
TokensFrom(text, i, cur) ==
    LET flush == IF cur = <<>> THEN <<>> ELSE <<cur>>
    IN  IF i > Len(text) THEN flush
        ELSE IF text[i] \in IdentifierChars
             THEN TokensFrom(text, i + 1, Append(cur, text[i]))
             ELSE flush \o TokensFrom(text, i + 1, <<>>)

\* IdentifierOccurrences::within_string
WithinString(text) ==
    LET tokens == TokensFrom(text, 1, <<>>)
        names == {tokens[i] : i \in 1..Len(tokens)}
    IN  [identifier_to_count |->
            [n \in names |-> Cardinality({i \in 1..Len(tokens) : tokens[i] = n})],
         total_count |-> Len(tokens)]

RECURSIVE SumOver(_, _)
SumOver(f, S) ==
    IF S = {} THEN 0
    ELSE LET x == CHOOSE y \in S : TRUE IN f[x] + SumOver(f, S \ {x})

\* |A n B| / |A u B| over the sets of names; an empty union gives 0
jaccard_similarity(set_a, set_b) ==
    LET A == DOMAIN set_a.identifier_to_count
        B == DOMAIN set_b.identifier_to_count
        union == Cardinality(A \cup B)
    IN  IF union = 0 THEN <<0, 1>> ELSE <<Cardinality(A \cap B), union>>

\* sum of per-name minimum counts / the smaller total; an empty side gives 0
weighted_overlap_coefficient(set_a, set_b) ==
    LET A == DOMAIN set_a.identifier_to_count
        B == DOMAIN set_b.identifier_to_count
        mins == [n \in A \cap B |->
                    Min(set_a.identifier_to_count[n], set_b.identifier_to_count[n])]
        denominator == Min(set_a.total_count, set_b.total_count)
    IN  IF denominator = 0 THEN <<0, 1>> ELSE <<SumOver(mins, A \cap B), denominator>>

----------------------------------------------------------------------------
(* declaration.rs *)

ITEM_TEXT_TRUNCATION_LENGTH == 1024

SaturatingSub(a, b) == Max(a - b, 0)

\* faulty variant: the end stays on the row of range.end
expand_range_without_last_line(range, limit, text) ==
    LET start_row == RowOfOffset(text, range[1])
        end_row == RowOfOffset(text, range[2])
        start == RowStartOffset(text, start_row)
        end == RowStartOffset(text, end_row)
        is_truncated == (end - start) > limit
        cut == IF is_truncated THEN start + limit ELSE end
    IN  [range |-> <<start, ClipOffset(text, cut)>>, is_truncated |-> is_truncated]

\* faulty variant: a range of exactly `limit` bytes counts as truncated
expand_range_truncated_at_limit(range, limit, text) ==
    LET start_row == RowOfOffset(text, range[1])
        end_row == RowOfOffset(text, range[2]) + 1
        start == RowStartOffset(text, start_row)
        end == RowStartOffset(text, end_row)
        is_truncated == (end - start) >= limit
        cut == IF is_truncated THEN start + limit ELSE end
    IN  [range |-> <<start, ClipOffset(text, cut)>>, is_truncated |-> is_truncated]

\* (Range<usize>, bool)
expand_range_to_line_boundaries_and_truncate(range, limit, text) ==
    LET start_row == RowOfOffset(text, range[1])
        end_row == RowOfOffset(text, range[2]) + 1
        start == RowStartOffset(text, start_row)
        end == RowStartOffset(text, end_row)
        is_truncated == (end - start) > limit
        cut == IF is_truncated THEN start + limit ELSE end
    IN  [range |-> <<start, ClipOffset(text, cut)>>, is_truncated |-> is_truncated]

\* FileDeclaration::from_outline, wrapped as Declaration::File
\* (id stands for the DeclarationId under which the index stores it)
FileDeclarationFromOutline(id, entry, outline, text) ==
    LET expanded == expand_range_to_line_boundaries_and_truncate(
                        outline.item_range, ITEM_TEXT_TRUNCATION_LENGTH, text)
        item_range_in_file == expanded.range
        item_len == item_range_in_file[2] - item_range_in_file[1]
        signature_start == SaturatingSub(outline.signature_range[1], item_range_in_file[1])
        signature_end == SaturatingSub(outline.signature_range[2], item_range_in_file[1])
        signature_is_truncated == signature_end > item_len
    IN  [kind |-> "File",
         id |-> id,
         project_entry_id |-> entry,
         identifier |-> outline.identifier,
         item_range_in_file |-> item_range_in_file,
         text |-> TextForRange(text, item_range_in_file),
         text_is_truncated |-> expanded.is_truncated,
         signature_range_in_text |->
            <<signature_start,
              IF signature_is_truncated THEN item_len ELSE signature_end>>,
         signature_is_truncated |-> signature_is_truncated]

\* BufferDeclaration::from_outline, wrapped as Declaration::Buffer.  The
\* anchors are kept as the offsets they resolve to in the buffer's text.
BufferDeclarationFromOutline(id, buffer, outline) ==
    [kind |-> "Buffer",
     id |-> id,
     buffer |-> buffer,
     identifier |-> outline.identifier,
     item_range |-> outline.item_range,
     signature_range |-> outline.signature_range]

\* faulty variant: a released buffer still yields the text it last held
item_text_stale(declaration, bufs) ==
    IF declaration.kind = "File"
    THEN [text |-> declaration.text, is_truncated |-> declaration.text_is_truncated]
    ELSE LET e == expand_range_to_line_boundaries_and_truncate(
                     declaration.item_range, ITEM_TEXT_TRUNCATION_LENGTH,
                     bufs[declaration.buffer].text)
         IN  [text |-> TextForRange(bufs[declaration.buffer].text, e.range),
              is_truncated |-> e.is_truncated]

\* WeakEntity::read_with(..).unwrap_or_default(): ("", false) once released
EmptyText == [text |-> <<>>, is_truncated |-> FALSE]

\* faulty variant: a buffer's item is cut at the truncation length without
\* being widened to whole lines
item_text_of_item_range(declaration, bufs) ==
    IF declaration.kind = "File"
    THEN [text |-> declaration.text, is_truncated |-> declaration.text_is_truncated]
    ELSE IF bufs[declaration.buffer].alive
         THEN LET is_truncated ==
                      declaration.item_range[2] - declaration.item_range[1]
                          > ITEM_TEXT_TRUNCATION_LENGTH
                  end == IF is_truncated
                         THEN declaration.item_range[1] + ITEM_TEXT_TRUNCATION_LENGTH
                         ELSE declaration.item_range[2]
              IN  [text |-> TextForRange(bufs[declaration.buffer].text,
                                         <<declaration.item_range[1], end>>),
                   is_truncated |-> is_truncated]
         ELSE EmptyText

item_text(declaration, bufs) ==
    IF declaration.kind = "File"
    THEN [text |-> declaration.text, is_truncated |-> declaration.text_is_truncated]
    ELSE IF bufs[declaration.buffer].alive
         THEN LET e == expand_range_to_line_boundaries_and_truncate(
                          declaration.item_range, ITEM_TEXT_TRUNCATION_LENGTH,
                          bufs[declaration.buffer].text)
              IN  [text |-> TextForRange(bufs[declaration.buffer].text, e.range),
                   is_truncated |-> e.is_truncated]
         ELSE EmptyText

signature_text(declaration, bufs) ==
    IF declaration.kind = "File"
    THEN [text |-> SubSeq(declaration.text,
                          declaration.signature_range_in_text[1] + 1,
                          declaration.signature_range_in_text[2]),
          is_truncated |-> declaration.signature_is_truncated]
    ELSE IF bufs[declaration.buffer].alive
         THEN LET e == expand_range_to_line_boundaries_and_truncate(
                          declaration.signature_range, ITEM_TEXT_TRUNCATION_LENGTH,
                          bufs[declaration.buffer].text)
              IN  [text |-> TextForRange(bufs[declaration.buffer].text, e.range),
                   is_truncated |-> e.is_truncated]
         ELSE EmptyText


----------------------------------------------------------------------------
(* declaration_scoring.rs: ScoreInputs::score *)

\* faulty variant: the total candidate count divides in both branches
accuracy_score_total_count(self) ==
    IF self.is_same_file
    THEN RDivInt(<<1, 2>>, self.declaration_count)
    ELSE RDivInt(RInt(1), self.declaration_count)

\* faulty variant: a same-file candidate gains accuracy with its distance
accuracy_score_rising_with_distance(self) ==
    IF self.is_same_file
    THEN RDivInt(<<1 + self.declaration_line_distance, 2>>,
                 self.same_file_declaration_count)
    ELSE RDivInt(RInt(1), self.declaration_count)

\* Score related to how likely this is the correct declaration
accuracy_score(self) ==
    IF self.is_same_file
    THEN RDivInt(<<1, 2>>, self.same_file_declaration_count)
    ELSE RDivInt(RInt(1), self.declaration_count)

\* faulty variant: the square is dropped
distance_score_not_squared(self) ==
    IF self.is_referenced_nearby
    THEN RInv(RAdd(RInt(1), <<self.reference_line_distance, 10>>))
    ELSE <<1, 2>>

\* Score related to the distance between the reference and cursor
distance_score(self) ==
    IF self.is_referenced_nearby
    THEN LET base == RAdd(RInt(1), <<self.reference_line_distance, 10>>)
         IN  RInv(RMul(base, base))
    ELSE <<1, 2>>

combined_score(self) ==
    RMul(RMul(RInt(10), accuracy_score(self)), distance_score(self))

\* faulty variant: the declaration score uses the Jaccard measure
score_with_jaccard(self) ==
    [signature |->
        RMul(combined_score(self), self.containing_range_vs_signature_weighted_overlap),
     declaration |->
        RMul(RMul(RInt(2), combined_score(self)),
             self.containing_range_vs_item_jaccard)]

score(self) ==
    [signature |->
        RMul(combined_score(self), self.containing_range_vs_signature_weighted_overlap),
     declaration |->
        RMul(RMul(RInt(2), combined_score(self)),
             self.containing_range_vs_item_weighted_overlap)]

----------------------------------------------------------------------------
(* declaration_scoring.rs: range_intersection, score_snippet, scored_snippets *)

\* Option<T>: None is the empty sequence, Some(x) is <<x>>
None == <<>>
Some(x) == <<x>>
Unwrap(option) == option[1]

----------------------------------------------------------------------------
(* scored_declaration.rs, the superseded variant: ScoreInputs::score *)

\* faulty variant: the number of files divides for a candidate of another file
superseded_accuracy_score_by_file_count(self) ==
    IF self.is_same_file
    THEN RAdd(RDivInt(<<1, 2>>, self.same_file_definition_count),
              RDivInt(<<1, 2>>, self.definition_file_count))
    ELSE RDivInt(RInt(1), self.definition_file_count)

\* Score related to how likely this is the correct definition
superseded_accuracy_score(self) ==
    IF self.is_same_file
    THEN RAdd(RDivInt(<<1, 2>>, self.same_file_definition_count),
              RDivInt(<<1, 2>>, self.definition_file_count))
    ELSE RDivInt(RInt(1), self.definition_count)

superseded_distance_score(self) ==
    IF self.is_referenced_nearby
    THEN LET base == RAdd(RInt(1), <<self.reference_line_distance, 10>>)
         IN  RInv(RMul(base, base))
    ELSE <<1, 2>>

superseded_combined_score(self) ==
    RMul(RMul(RInt(10), superseded_accuracy_score(self)), superseded_distance_score(self))

superseded_score(self) ==
    [signature |->
        RMul(superseded_combined_score(self),
             self.containing_range_vs_signature_weighted_overlap),
     definition |->
        RMul(RMul(RInt(2), superseded_combined_score(self)),
             self.containing_range_vs_item_weighted_overlap)]

\* faulty variant: the overlap test admits only a candidate that lies inside the excerpt
range_intersection_contained(a, b) ==
    IF b[1] <= a[1] /\ a[2] <= b[2] /\ a[1] < a[2] THEN Some(a) ELSE None

\* faulty variant: ranges that merely touch count as intersecting
range_intersection_touching(a, b) ==
    LET start == Max(a[1], b[1])
        end == Min(a[2], b[2])
    IN  IF start <= end THEN Some(<<start, end>>) ELSE None

range_intersection(a, b) ==
    LET start == Max(a[1], b[1])
        end == Min(a[2], b[2])
    IN  IF start < end THEN Some(<<start, end>>) ELSE None

\* faulty variant: only the first reference is looked at
reference_line_distance_first(references, cursor_row, current_text) ==
    IF references = <<>> THEN None
    ELSE Some(Abs(cursor_row - RowOfOffset(current_text, references[1].start)))

\* references.iter().map(|r| |cursor.row - row of r.range.start|).min()
reference_line_distance_min(references, cursor_row, current_text) ==
    LET ds == {Abs(cursor_row - RowOfOffset(current_text, references[i].start)) :
                  i \in 1..Len(references)}
    IN  IF ds = {} THEN None ELSE Some(CHOOSE d \in ds : \A e \in ds : d <= e)

\* score_snippet either returns Some(snippet) or panics in .min().unwrap()
Panic == [panicked |-> TRUE]
Returned(value) == [panicked |-> FALSE, value |-> value]

score_snippet(identifier, references, declaration, is_same_file, declaration_line_distance, declaration_line_distance_rank, same_file_declaration_count, declaration_count, containing_range_identifier_occurrences, adjacent_identifier_occurrences, cursor_row, current_text, bufs) ==
    LET min_distance == reference_line_distance_min(references, cursor_row, current_text)
        item_source_occurrences == WithinString(item_text(declaration, bufs).text)
        item_signature_occurrences == WithinString(signature_text(declaration, bufs).text)
        score_components ==
            [is_same_file |-> is_same_file,
             is_referenced_nearby |->
                \E i \in 1..Len(references) : references[i].region = "Nearby",
             is_referenced_in_breadcrumb |->
                \E i \in 1..Len(references) : references[i].region = "Breadcrumb",
             reference_count |-> Len(references),
             reference_line_distance |-> Unwrap(min_distance),
             declaration_line_distance |-> declaration_line_distance,
             declaration_line_distance_rank |-> declaration_line_distance_rank,
             same_file_declaration_count |-> same_file_declaration_count,
             declaration_count |-> declaration_count,
             containing_range_vs_item_jaccard |->
                jaccard_similarity(containing_range_identifier_occurrences,
                                   item_source_occurrences),
             containing_range_vs_signature_jaccard |->
                jaccard_similarity(containing_range_identifier_occurrences,
                                   item_signature_occurrences),
             adjacent_vs_item_jaccard |->
                jaccard_similarity(adjacent_identifier_occurrences,
                                   item_source_occurrences),
             adjacent_vs_signature_jaccard |->
                jaccard_similarity(adjacent_identifier_occurrences,
                                   item_signature_occurrences),
             containing_range_vs_item_weighted_overlap |->
                weighted_overlap_coefficient(containing_range_identifier_occurrences,
                                             item_source_occurrences),
             containing_range_vs_signature_weighted_overlap |->
                weighted_overlap_coefficient(containing_range_identifier_occurrences,
                                             item_signature_occurrences),
             adjacent_vs_item_weighted_overlap |->
                weighted_overlap_coefficient(adjacent_identifier_occurrences,
                                             item_source_occurrences),
             adjacent_vs_signature_weighted_overlap |->
                weighted_overlap_coefficient(adjacent_identifier_occurrences,
                                             item_signature_occurrences)]
    IN  IF min_distance = None
        THEN Panic
        ELSE Returned(Some([identifier |-> identifier,
                            declaration |-> declaration,
                            score_components |-> score_components,
                            scores |-> score(score_components)]))

\* scored_declaration.rs: score_snippet of the superseded variant
superseded_score_snippet(identifier, references, definition, is_same_file, definition_line_distance, definition_line_distance_rank, same_file_definition_count, definition_count, definition_file_count, containing_range_identifier_occurrences, adjacent_identifier_occurrences, cursor_row, current_text, bufs) ==
    LET min_distance == reference_line_distance_min(references, cursor_row, current_text)
        item_source_occurrences == WithinString(item_text(definition, bufs).text)
        item_signature_occurrences == WithinString(signature_text(definition, bufs).text)
        score_components ==
            [is_same_file |-> is_same_file,
             is_referenced_nearby |->
                \E i \in 1..Len(references) : references[i].region = "Nearby",
             is_referenced_in_breadcrumb |->
                \E i \in 1..Len(references) : references[i].region = "Breadcrumb",
             reference_line_distance |-> Unwrap(min_distance),
             definition_line_distance |-> definition_line_distance,
             definition_line_distance_rank |-> definition_line_distance_rank,
             reference_count |-> Len(references),
             same_file_definition_count |-> same_file_definition_count,
             definition_count |-> definition_count,
             definition_file_count |-> definition_file_count,
             containing_range_vs_item_jaccard |->
                jaccard_similarity(containing_range_identifier_occurrences,
                                   item_source_occurrences),
             containing_range_vs_signature_jaccard |->
                jaccard_similarity(containing_range_identifier_occurrences,
                                   item_signature_occurrences),
             adjacent_vs_item_jaccard |->
                jaccard_similarity(adjacent_identifier_occurrences,
                                   item_source_occurrences),
             adjacent_vs_signature_jaccard |->
                jaccard_similarity(adjacent_identifier_occurrences,
                                   item_signature_occurrences),
             containing_range_vs_item_weighted_overlap |->
                weighted_overlap_coefficient(containing_range_identifier_occurrences,
                                             item_source_occurrences),
             containing_range_vs_signature_weighted_overlap |->
                weighted_overlap_coefficient(containing_range_identifier_occurrences,
                                             item_signature_occurrences),
             adjacent_vs_item_weighted_overlap |->
                weighted_overlap_coefficient(adjacent_identifier_occurrences,
                                             item_source_occurrences),
             adjacent_vs_signature_weighted_overlap |->
                weighted_overlap_coefficient(adjacent_identifier_occurrences,
                                             item_signature_occurrences)]
    IN  IF min_distance = None
        THEN Panic
        ELSE Returned(Some([identifier |-> identifier,
                            declaration |-> definition,
                            score_components |-> score_components,
                            scores |-> superseded_score(score_components)]))

----------------------------------------------------------------------------
(* SyntaxIndex: the two queries scored_snippets makes *)

DeclarationLimit == 16

\* declarations_for_identifier::<16>: the first declarations in insertion order
declarations_for_identifier(idx, identifier) ==
    SubSeq(idx[identifier], 1, Min(DeclarationLimit, Len(idx[identifier])))

DeclarationFile(declaration) ==
    IF declaration.kind = "File" THEN declaration.project_entry_id
    ELSE declaration.buffer

\* faulty variant: only the declarations named like the candidate are counted
file_declaration_count_of_identifier(idx, declaration) ==
    Cardinality({i \in 1..Len(idx[declaration.identifier]) :
        DeclarationFile(idx[declaration.identifier][i]) = DeclarationFile(declaration)})

\* how many declarations of the index share the declaration's file
file_declaration_count(idx, declaration) ==
    LET count == [n \in DOMAIN idx |->
                    Cardinality({i \in 1..Len(idx[n]) :
                        DeclarationFile(idx[n][i]) = DeclarationFile(declaration)})]
    IN  SumOver(count, DOMAIN idx)

----------------------------------------------------------------------------
(* scored_snippets: the closure run for one (identifier, references) entry *)

\* buffer.read_with(cx, |b, _| b.remote_id()).is_ok_and(|id| id == current id)
IsSameFile(declaration, req, bufs) ==
    /\ bufs[declaration.buffer].alive
    /\ declaration.buffer = req.current_buffer

\* faulty variant: the test of the intersection is inverted
Candidate_keeps_intersecting(declaration, req, bufs) ==
    IF declaration.kind = "Buffer" /\ IsSameFile(declaration, req, bufs)
    THEN IF range_intersection(declaration.item_range, req.excerpt_range) # None
         THEN Some([is_same_file |-> TRUE,
                    distance |-> Abs(RowOfOffset(req.current_text, req.cursor_offset) -
                        RowOfOffset(req.current_text, declaration.item_range[1])),
                    declaration |-> declaration])
         ELSE None
    ELSE Some([is_same_file |-> FALSE, distance |-> 0, declaration |-> declaration])

\* the filter_map closure: Some((is_same_file, distance, declaration)) or None
Candidate(declaration, req, bufs) ==
    LET cursor_row == RowOfOffset(req.current_text, req.cursor_offset)
    IN  IF declaration.kind = "Buffer"
        THEN IF IsSameFile(declaration, req, bufs)
             THEN IF range_intersection(declaration.item_range, req.excerpt_range) = None
                  THEN Some([is_same_file |-> TRUE,
                             distance |-> Abs(cursor_row -
                                 RowOfOffset(req.current_text, declaration.item_range[1])),
                             declaration |-> declaration])
                  ELSE None
             ELSE Some([is_same_file |-> FALSE, distance |-> 0,
                        declaration |-> declaration])
        ELSE Some([is_same_file |-> FALSE, distance |-> 0, declaration |-> declaration])

RECURSIVE FilterMapCandidates(_, _, _)
FilterMapCandidates(declarations, req, bufs) ==
    IF declarations = <<>> THEN <<>>
    ELSE Candidate(Head(declarations), req, bufs)
            \o FilterMapCandidates(Tail(declarations), req, bufs)

\* faulty variant: a candidate goes before those of equal distance
RECURSIVE InsertBeforeTies(_, _)
InsertBeforeTies(sorted, c) ==
    IF sorted = <<>> THEN <<c>>
    ELSE IF Head(sorted).distance < c.distance
         THEN <<Head(sorted)>> \o InsertBeforeTies(Tail(sorted), c)
         ELSE <<c>> \o sorted

\* insert after every element whose key is not larger: the sort is stable
RECURSIVE InsertByDistance(_, _)
InsertByDistance(sorted, c) ==
    IF sorted = <<>> THEN <<c>>
    ELSE IF Head(sorted).distance <= c.distance
         THEN <<Head(sorted)>> \o InsertByDistance(Tail(sorted), c)
         ELSE <<c>> \o sorted

\* faulty variant: the candidates keep the order of the index
SortedByDistance_unsorted(candidates) == candidates

RECURSIVE SortedByDistance(_)
SortedByDistance(candidates) ==
    IF candidates = <<>> THEN <<>>
    ELSE InsertByDistance(SortedByDistance(SubSeq(candidates, 1, Len(candidates) - 1)),
                          candidates[Len(candidates)])

AdjacentText(req) ==
    LET cursor_row == RowOfOffset(req.current_text, req.cursor_offset)
    IN  TextForRange(req.current_text,
            <<RowStartOffset(req.current_text, SaturatingSub(cursor_row, 2)),
              RowStartOffset(req.current_text, cursor_row + 1)>>)

\* faulty variant: the candidates are counted after the self-exclusion filter
IdentifierResults_counted_after_filter(identifier, references, idx, req, bufs) ==
    LET declarations == declarations_for_identifier(idx, identifier)
        ranked == SortedByDistance(FilterMapCandidates(declarations, req, bufs))
        declaration_count == Len(ranked)
        containing_range_identifier_occurrences == WithinString(req.excerpt_body)
        adjacent_identifier_occurrences == WithinString(AdjacentText(req))
        cursor_row == RowOfOffset(req.current_text, req.cursor_offset)
    IN  [rank \in 1..Len(ranked) |->
            score_snippet(identifier, references, ranked[rank].declaration,
                          ranked[rank].is_same_file, ranked[rank].distance, rank - 1,
                          file_declaration_count(idx, ranked[rank].declaration),
                          declaration_count,
                          containing_range_identifier_occurrences,
                          adjacent_identifier_occurrences, cursor_row,
                          req.current_text, bufs)]

\* the results of score_snippet for the identifier's candidates, in rank order
IdentifierResults(identifier, references, idx, req, bufs) ==
    LET declarations == declarations_for_identifier(idx, identifier)
        declaration_count == Len(declarations)
        ranked == SortedByDistance(FilterMapCandidates(declarations, req, bufs))
        containing_range_identifier_occurrences == WithinString(req.excerpt_body)
        adjacent_identifier_occurrences == WithinString(AdjacentText(req))
        cursor_row == RowOfOffset(req.current_text, req.cursor_offset)
    IN  [rank \in 1..Len(ranked) |->
            score_snippet(identifier, references, ranked[rank].declaration,
                          ranked[rank].is_same_file, ranked[rank].distance, rank - 1,
                          file_declaration_count(idx, ranked[rank].declaration),
                          declaration_count,
                          containing_range_identifier_occurrences,
                          adjacent_identifier_occurrences, cursor_row,
                          req.current_text, bufs)]

RECURSIVE FlattenOptions(_)
FlattenOptions(results) ==
    IF results = <<>> THEN <<>>
    ELSE Head(results).value \o FlattenOptions(Tail(results))

----------------------------------------------------------------------------
(* The project the calls run against: one buffer holding the cursor, one   *)
(* other open buffer whose entity may have been released, one closed file. *)

Identifiers == {"a", "b"}

CursorBuffer == "c.rs"
OtherBuffer == "a.rs"
ClosedFile == "b.rs"

\* rows: 0 "a b" (0..3), 1 "b a" (4..7), 2 "c" (8..9), 3 "a a" (10..13)
CursorText ==
    <<"a", " ", "b", "\n", "b", " ", "a", "\n", "c", "\n", "a", " ", "a", "\n">>
OtherText == <<"a", " ", "c", "\n", "b", "\n">>
ClosedText == <<"a", " ", "a", " ", "b", "\n">>

Outline(identifier, item_range, signature_range) ==
    [identifier |-> identifier, item_range |-> item_range,
     signature_range |-> signature_range]

CursorOutline ==
    <<Outline("a", <<0, 4>>, <<0, 1>>),
      Outline("b", <<4, 7>>, <<4, 5>>),
      Outline("a", <<10, 13>>, <<10, 11>>)>>
OtherOutline ==
    <<Outline("a", <<0, 3>>, <<0, 1>>),
      Outline("b", <<4, 5>>, <<4, 5>>)>>
ClosedOutline == Outline("a", <<0, 5>>, <<0, 3>>)

\* number of same-named declarations of the closed file in the large project
BulkCount == 17

RECURSIVE SelectIndices(_, _)
SelectIndices(n, S) ==
    IF n = 0 THEN <<>>
    ELSE SelectIndices(n - 1, S) \o (IF n \in S THEN <<n>> ELSE <<>>)

CursorDeclarations(chosen) ==
    LET ix == SelectIndices(Len(CursorOutline), chosen)
    IN  [k \in 1..Len(ix) |->
            BufferDeclarationFromOutline(ix[k], CursorBuffer, CursorOutline[ix[k]])]

OtherDeclarations(chosen) ==
    LET ix == SelectIndices(Len(OtherOutline), chosen)
    IN  [k \in 1..Len(ix) |->
            BufferDeclarationFromOutline(10 + ix[k], OtherBuffer, OtherOutline[ix[k]])]

ClosedDeclarations(count) ==
    [k \in 1..count |->
        FileDeclarationFromOutline(20 + k, ClosedFile, ClosedOutline, ClosedText)]

RECURSIVE Concat(_)
Concat(seqs) == IF seqs = <<>> THEN <<>> ELSE Head(seqs) \o Concat(Tail(seqs))

Named(declarations, identifier) ==
    SelectSeq(declarations, LAMBDA d : d.identifier = identifier)

\* the identifier map after the files were indexed in the given order
BuildIndex(per_file) ==
    [n \in Identifiers |-> Named(Concat(per_file), n)]

Reverse(seq) == [i \in 1..Len(seq) |-> seq[Len(seq) + 1 - i]]

SmallProjects ==
    {<<CursorDeclarations(c), OtherDeclarations(o), ClosedDeclarations(n)>> :
        c \in SUBSET (1..Len(CursorOutline)),
        o \in {{}, {1}, {1, 2}},
        n \in {0, 1}}

\* more same-named declarations than one query returns
LargeProjects ==
    {<<CursorDeclarations(c), OtherDeclarations({2}), ClosedDeclarations(BulkCount)>> :
        c \in {{}, {1}}}

Indexes ==
    {BuildIndex(IF forward THEN files ELSE Reverse(files)) :
        forward \in BOOLEAN, files \in SmallProjects \cup LargeProjects}

Reference(start, region) == [start |-> start, region |-> region]

\* Some(references) is an entry of identifier_to_references, None is no entry
ReferenceEntries ==
    [a |-> {None,
            Some(<<>>),
            Some(<<Reference(0, "Breadcrumb")>>),
            Some(<<Reference(0, "InBody"), Reference(12, "Nearby")>>)},
     b |-> {None,
            Some(<<>>),
            Some(<<Reference(4, "Nearby"), Reference(2, "Breadcrumb")>>)}]

ReferenceMaps ==
    {[n \in {m \in Identifiers : entries[m] # None} |-> Unwrap(entries[n])] :
        entries \in [Identifiers -> ReferenceEntries.a \cup ReferenceEntries.b]
                        \cap {e \in [Identifiers -> ReferenceEntries.a \cup ReferenceEntries.b] :
                                \A n \in Identifiers : e[n] \in ReferenceEntries[n]}}

Excerpts ==
    {[cursor_offset |-> 5, range |-> <<4, 8>>],
     [cursor_offset |-> 9, range |-> <<8, 10>>],
     [cursor_offset |-> 1, range |-> <<0, 6>>]}

Requests ==
    {[excerpt_range |-> e.range,
      excerpt_body |-> TextForRange(CursorText, e.range),
      identifier_to_references |-> refs,
      cursor_offset |-> e.cursor_offset,
      current_buffer |-> CursorBuffer,
      current_text |-> CursorText] : e \in Excerpts, refs \in ReferenceMaps}

\* "the current one must be open" (scored_snippets): the buffer holding the
\* cursor is alive; the other buffer may have been released
BufferStates ==
    {[b \in {CursorBuffer, OtherBuffer} |->
        [text |-> IF b = CursorBuffer THEN CursorText ELSE OtherText,
         alive |-> b = CursorBuffer \/ other_alive]] : other_alive \in BOOLEAN}

----------------------------------------------------------------------------
(* Parts of the state a specification does not use *)

NoScore ==
    /\ score_inputs = <<>>
    /\ score_outputs = <<>>

NoDeclaration ==
    /\ outline_declaration = <<>>
    /\ built = <<>>
    /\ texts = <<>>

NoIndexing ==
    /\ disk = <<>>
    /\ extraction = <<>>

NoRun ==
    /\ run_input = <<>>
    /\ excerpt_ranges = <<>>
    /\ planned_prompt = <<>>
    /\ printed = <<>>
    /\ logged = {}

NoMention == mentions = <<>>

NoMatching ==
    /\ candidate_sets = <<>>
    /\ num_cpus = 0
    /\ segments = <<>>
    /\ cancel_flag = FALSE
    /\ returned = <<>>

NoSuperseded ==
    /\ superseded_pc = "idle"
    /\ superseded_remaining = {}
    /\ superseded_out = <<>>

----------------------------------------------------------------------------
(* Specification of scored_snippets *)

Init ==
    /\ index \in Indexes
    /\ buffers \in BufferStates
    /\ request \in Requests
    /\ pc = "scoring"
    /\ remaining = DOMAIN request.identifier_to_references
    /\ out = <<>>
    /\ NoScore
    /\ NoDeclaration
    /\ NoIndexing
    /\ NoRun
    /\ NoMention
    /\ NoMatching
    /\ NoSuperseded

\* faulty variant: the declarations fetched for an identifier are taken out
\* of the index
ScoreIdentifier_draining(identifier) ==
    /\ pc = "scoring"
    /\ identifier \in remaining
    /\ LET results == IdentifierResults(identifier,
                          request.identifier_to_references[identifier],
                          index, request, buffers)
       IN  IF \E i \in 1..Len(results) : results[i].panicked
           THEN /\ pc' = "panicked"
                /\ UNCHANGED <<remaining, out>>
           ELSE /\ out' = out \o FlattenOptions(results)
                /\ remaining' = remaining \ {identifier}
                /\ pc' = pc
    /\ index' = [index EXCEPT ![identifier] =
            SubSeq(@, Len(declarations_for_identifier(index, identifier)) + 1, Len(@))]
    /\ UNCHANGED <<mentionVars, fuzzyVars, supersededVars, runVars, buffers, request, scoreVars, declarationVars, indexingVars>>

\* one step of identifier_to_references.into_iter().flat_map(..): the map's
\* iteration order is arbitrary
ScoreIdentifier(identifier) ==
    /\ pc = "scoring"
    /\ identifier \in remaining
    /\ LET results == IdentifierResults(identifier,
                          request.identifier_to_references[identifier],
                          index, request, buffers)
       IN  IF \E i \in 1..Len(results) : results[i].panicked
           THEN /\ pc' = "panicked"
                /\ UNCHANGED <<remaining, out>>
           ELSE /\ out' = out \o FlattenOptions(results)
                /\ remaining' = remaining \ {identifier}
                /\ pc' = pc
    /\ UNCHANGED <<mentionVars, fuzzyVars, supersededVars, runVars, index, buffers, request, scoreVars, declarationVars, indexingVars>>

\* .flatten().collect(): the call returns `out`
Return ==
    /\ pc = "scoring"
    /\ remaining = {}
    /\ pc' = "done"
    /\ UNCHANGED <<mentionVars, fuzzyVars, supersededVars, runVars, index, buffers, request, remaining, out, scoreVars, declarationVars, indexingVars>>

Next ==
    \/ \E identifier \in Identifiers : ScoreIdentifier(identifier)
    \/ Return

Spec == Init /\ [][Next]_vars

----------------------------------------------------------------------------
(* Specification of ScoreInputs::score as a function of its inputs *)

MaxCount == 3
MaxLineDistance == 2

Overlaps == {<<0, 1>>, <<1, 2>>, <<1, 1>>}

ScoreInputsBase ==
    [is_same_file : BOOLEAN,
     is_referenced_nearby : BOOLEAN,
     is_referenced_in_breadcrumb : {FALSE},
     reference_count : {1},
     reference_line_distance : 0..MaxLineDistance,
     declaration_line_distance : 0..MaxLineDistance,
     declaration_line_distance_rank : {0},
     same_file_declaration_count : 1..MaxCount,
     declaration_count : 1..MaxCount,
     containing_range_vs_item_jaccard : {<<1, 2>>},
     containing_range_vs_signature_jaccard : {<<1, 2>>},
     adjacent_vs_item_jaccard : {<<1, 2>>},
     adjacent_vs_signature_jaccard : {<<1, 2>>},
     containing_range_vs_item_weighted_overlap : Overlaps \ {<<0, 1>>},
     containing_range_vs_signature_weighted_overlap : Overlaps,
     adjacent_vs_item_weighted_overlap : {<<1, 2>>},
     adjacent_vs_signature_weighted_overlap : {<<1, 2>>}]

\* the same inputs with another declaration distance and other values of the
\* Jaccard and adjacent-window measures
Variant(self, distance, measure) ==
    [self EXCEPT !.declaration_line_distance = distance,
                 !.containing_range_vs_item_jaccard = measure,
                 !.containing_range_vs_signature_jaccard = measure,
                 !.adjacent_vs_item_jaccard = measure,
                 !.adjacent_vs_signature_jaccard = measure,
                 !.adjacent_vs_item_weighted_overlap = measure,
                 !.adjacent_vs_signature_weighted_overlap = measure]

IdleRequest ==
    [excerpt_range |-> <<0, 0>>, excerpt_body |-> <<>>,
     identifier_to_references |-> <<>>, cursor_offset |-> 0,
     current_buffer |-> CursorBuffer, current_text |-> CursorText]

InitScore ==
    /\ \E self \in ScoreInputsBase, distance \in 0..MaxLineDistance,
          measure \in {<<1, 2>>, <<1, 3>>} :
            score_inputs = <<self, Variant(self, distance, measure)>>
    /\ score_outputs = <<None, None>>
    /\ index = [n \in Identifiers |-> <<>>]
    /\ buffers \in {b \in BufferStates : b[OtherBuffer].alive}
    /\ request = IdleRequest
    /\ pc = "idle"
    /\ remaining = {}
    /\ out = <<>>
    /\ NoDeclaration
    /\ NoIndexing
    /\ NoRun
    /\ NoMention
    /\ NoMatching
    /\ NoSuperseded

\* one call of ScoreInputs::score; the record keeps its locals with its result
ApplyScore(k) ==
    /\ pc = "idle"
    /\ score_outputs[k] = None
    /\ score_outputs' = [score_outputs EXCEPT ![k] =
            Some([accuracy_score |-> accuracy_score(score_inputs[k]),
                  distance_score |-> distance_score(score_inputs[k]),
                  scores |-> score(score_inputs[k])])]
    /\ UNCHANGED <<mentionVars, fuzzyVars, supersededVars, runVars, scoringVars, score_inputs, declarationVars, indexingVars>>

NextScore == \E k \in 1..2 : ApplyScore(k)

SpecScore == InitScore /\ [][NextScore]_vars

----------------------------------------------------------------------------
(* Vocabulary of the properties *)

Referenced == DOMAIN request.identifier_to_references

\* identifiers whose closure has run to completion
Scored == IF pc = "panicked" THEN {} ELSE Referenced \ remaining

\* the candidates one query returns: at most DeclarationLimit, insertion order
Fetched(n) ==
    {index[n][i] : i \in 1..(IF Len(index[n]) <= DeclarationLimit
                             THEN Len(index[n]) ELSE DeclarationLimit)}

SnippetsOf(n) == {i \in 1..Len(out) : out[i].identifier = n}

SnippetsFor(n, d) == {i \in SnippetsOf(n) : out[i].declaration.id = d.id}

InCursorBuffer(d) == d.kind = "Buffer" /\ d.buffer = request.current_buffer

\* the two half-open offset ranges have a byte in common
Overlap(a, b) == \E o \in 0..Len(request.current_text) :
                    a[1] <= o /\ o < a[2] /\ b[1] <= o /\ o < b[2]

SelfExcluded(d) ==
    InCursorBuffer(d) /\ Overlap(d.item_range, request.excerpt_range)

----------------------------------------------------------------------------
(* C1: a buffer-backed candidate of the cursor's buffer whose item range    *)
(* overlaps the excerpt's primary range produces no ScoredSnippet, for      *)
(* every identifier and every index content.                                *)
C1_SelfExclusion ==
    \A i \in 1..Len(out) : ~SelfExcluded(out[i].declaration)

\* a call returned snippets for an identifier one of whose candidates
\* overlapped the excerpt
C1_Witness ==
    /\ pc = "done"
    /\ \E n \in Scored :
        /\ \E d \in Fetched(n) : SelfExcluded(d)
        /\ SnippetsOf(n) # {}

(* C2: for every referenced identifier, exactly one ScoredSnippet is        *)
(* emitted for each fetched candidate that is not self-excluded, and never  *)
(* two snippets for the same (identifier, declaration) pair.                *)
C2_OneSnippetPerSurvivor ==
    \A n \in Scored : \A d \in Fetched(n) :
        /\ Cardinality(SnippetsFor(n, d)) <= 1
        /\ ~SelfExcluded(d) => Cardinality(SnippetsFor(n, d)) = 1

\* a returned call with a file-backed, a released-buffer, a same-buffer
\* surviving and a self-excluded candidate among those of its identifiers
C2_Witness ==
    /\ pc = "done"
    /\ \E n \in Scored : \E d \in Fetched(n) : d.kind = "File"
    /\ \E n \in Scored : \E d \in Fetched(n) :
            d.kind = "Buffer" /\ ~buffers[d.buffer].alive
    /\ \E n \in Scored : \E d \in Fetched(n) : InCursorBuffer(d) /\ ~SelfExcluded(d)
    /\ \E n \in Scored : \E d \in Fetched(n) : SelfExcluded(d)
    /\ Cardinality(Scored) = 2

----------------------------------------------------------------------------
(* Properties of ScoreInputs::score, under SpecScore *)

ScoredInputs == {k \in DOMAIN score_outputs : score_outputs[k] # None}

ExpectedAccuracy(self) ==
    IF self.is_same_file THEN <<1, 2 * self.same_file_declaration_count>>
    ELSE <<1, self.declaration_count>>

ExpectedDistance(self) ==
    IF self.is_referenced_nearby
    THEN <<100, (10 + self.reference_line_distance) * (10 + self.reference_line_distance)>>
    ELSE <<1, 2>>

\* the inputs without the Jaccard and adjacent-window measures
WithoutAuxiliaryMeasures(self) ==
    Variant(self, self.declaration_line_distance, <<0, 1>>)

WithoutDeclarationDistance(self) ==
    [self EXCEPT !.declaration_line_distance = 0]

(* C3: accuracy_score is 0.5 / same_file_declaration_count when is_same_file *)
(* and 1 / declaration_count otherwise, for all inputs with positive counts. *)
C3_AccuracyScore ==
    \A k \in ScoredInputs :
        LET self == score_inputs[k]
            accuracy == Unwrap(score_outputs[k]).accuracy_score
        IN  /\ accuracy[2] > 0
            /\ self.is_same_file =>
                    2 * self.same_file_declaration_count * accuracy[1] = accuracy[2]
            /\ ~self.is_same_file => self.declaration_count * accuracy[1] = accuracy[2]

\* score ran on same-file and on other-file inputs with different counts
C3_Witness ==
    /\ ScoredInputs = {1, 2}
    /\ score_inputs[1].is_same_file
    /\ score_inputs[1].same_file_declaration_count = 2
    /\ score_inputs[1].declaration_count = 3
    /\ REq(Unwrap(score_outputs[1]).accuracy_score, <<1, 4>>)

(* C4: distance_score is 1 / (1 + d/10)^2 when the identifier has a Nearby  *)
(* reference, d being reference_line_distance, and exactly 0.5 when it has  *)
(* none, whatever d is.                                                     *)
C4_DistanceScore ==
    \A k \in ScoredInputs :
        LET self == score_inputs[k]
            d == self.reference_line_distance
            distance == Unwrap(score_outputs[k]).distance_score
        IN  /\ distance[2] > 0
            /\ self.is_referenced_nearby =>
                    distance[1] * (10 + d) * (10 + d) = 100 * distance[2]
            /\ ~self.is_referenced_nearby => 2 * distance[1] = distance[2]

\* score ran on inputs referenced nearby at a positive distance
C4_Witness ==
    /\ 1 \in ScoredInputs
    /\ score_inputs[1].is_referenced_nearby
    /\ score_inputs[1].reference_line_distance = 2
    /\ REq(Unwrap(score_outputs[1]).distance_score, <<100, 144>>)

(* C5: signature = 10 * accuracy * distance * weighted_overlap(excerpt,      *)
(* signature text), declaration = 2 * 10 * accuracy * distance *            *)
(* weighted_overlap(excerpt, item text); the Jaccard and adjacent-window    *)
(* measures change neither score.                                           *)
C5_FinalScores ==
    /\ \A k \in ScoredInputs :
        LET self == score_inputs[k]
            scores == Unwrap(score_outputs[k]).scores
            a == ExpectedAccuracy(self)
            d == ExpectedDistance(self)
            sig == self.containing_range_vs_signature_weighted_overlap
            item == self.containing_range_vs_item_weighted_overlap
        IN  /\ scores.signature[1] * a[2] * d[2] * sig[2]
                    = 10 * a[1] * d[1] * sig[1] * scores.signature[2]
            /\ scores.declaration[1] * a[2] * d[2] * item[2]
                    = 2 * 10 * a[1] * d[1] * item[1] * scores.declaration[2]
    /\ \A k, l \in ScoredInputs :
        WithoutAuxiliaryMeasures(score_inputs[k]) = WithoutAuxiliaryMeasures(score_inputs[l])
            => /\ REq(Unwrap(score_outputs[k]).scores.signature,
                      Unwrap(score_outputs[l]).scores.signature)
               /\ REq(Unwrap(score_outputs[k]).scores.declaration,
                      Unwrap(score_outputs[l]).scores.declaration)

\* two inputs that differ only in the auxiliary measures were both scored,
\* with non-zero scores
C5_Witness ==
    /\ ScoredInputs = {1, 2}
    /\ score_inputs[1] # score_inputs[2]
    /\ WithoutAuxiliaryMeasures(score_inputs[1]) = WithoutAuxiliaryMeasures(score_inputs[2])
    /\ ~RZero(Unwrap(score_outputs[1]).scores.signature)
    /\ ~RZero(Unwrap(score_outputs[2]).scores.declaration)

(* C6: of two nearby-referenced same-file candidates whose score inputs are *)
(* equal except for declaration_line_distance, the one with the smaller     *)
(* distance never has a lower signature or definition score.                *)
C6_MonotoneInDeclarationDistance ==
    \A k, l \in ScoredInputs :
        LET near == score_inputs[k]
            far == score_inputs[l]
        IN  (/\ near.is_same_file /\ near.is_referenced_nearby
             /\ WithoutDeclarationDistance(near) = WithoutDeclarationDistance(far)
             /\ near.declaration_line_distance <= far.declaration_line_distance)
            => /\ RLeq(Unwrap(score_outputs[l]).scores.signature,
                       Unwrap(score_outputs[k]).scores.signature)
               /\ RLeq(Unwrap(score_outputs[l]).scores.declaration,
                       Unwrap(score_outputs[k]).scores.declaration)

\* a nearer and a farther same-file candidate, otherwise equal, both scored
C6_Witness ==
    /\ ScoredInputs = {1, 2}
    /\ score_inputs[1].is_same_file /\ score_inputs[1].is_referenced_nearby
    /\ WithoutDeclarationDistance(score_inputs[1]) = WithoutDeclarationDistance(score_inputs[2])
    /\ score_inputs[1].declaration_line_distance < score_inputs[2].declaration_line_distance
    /\ ~RZero(Unwrap(score_outputs[1]).scores.signature)

----------------------------------------------------------------------------
(* Properties of scored_snippets, continued *)

FetchedCount(n) ==
    IF Len(index[n]) <= DeclarationLimit THEN Len(index[n]) ELSE DeclarationLimit

Released(d) == d.kind = "Buffer" /\ ~buffers[d.buffer].alive

(* C7: every ScoredSnippet of an identifier carries the same                *)
(* declaration_count, the number of candidates fetched for the identifier   *)
(* (1 to 16) counted before self-exclusion; the identifier has at most that *)
(* many snippets; an identifier declared only in k other files yields k     *)
(* snippets, each with declaration_count k and is_same_file false.          *)
C7_DeclarationCount ==
    \A n \in Scored :
        /\ \A i \in SnippetsOf(n) :
            /\ out[i].score_components.declaration_count = FetchedCount(n)
            /\ out[i].score_components.declaration_count \in 1..16
        /\ Cardinality(SnippetsOf(n)) <= FetchedCount(n)
        /\ (Len(index[n]) <= 16 /\ \A d \in Fetched(n) : ~InCursorBuffer(d))
            => /\ Cardinality(SnippetsOf(n)) = Len(index[n])
               /\ \A i \in SnippetsOf(n) :
                    /\ out[i].score_components.declaration_count = Len(index[n])
                    /\ ~out[i].score_components.is_same_file

\* a returned call: one identifier has more declarations than a query
\* returns and a self-excluded candidate, the other is declared in one
\* other file only
C7_Witness ==
    /\ pc = "done"
    /\ \E n \in Scored :
        /\ Len(index[n]) > 16
        /\ \E d \in Fetched(n) : SelfExcluded(d)
        /\ Cardinality(SnippetsOf(n)) = 15
    /\ \E n \in Scored :
        /\ Len(index[n]) = 1
        /\ ~InCursorBuffer(index[n][1])
        /\ SnippetsOf(n) # {}

\* n has exactly one declaration, in the cursor's buffer and outside the
\* excerpt, and no other referenced identifier is declared
CallSite(n) ==
    /\ n \in Referenced
    /\ request.identifier_to_references[n] # <<>>
    /\ Len(index[n]) = 1
    /\ InCursorBuffer(index[n][1])
    /\ ~Overlap(index[n][1].item_range, request.excerpt_range)
    /\ \A m \in Referenced \ {n} : index[m] = <<>>

(* C8: when the excerpt references an identifier with exactly one           *)
(* declaration, in the cursor's buffer outside the primary excerpt range,   *)
(* and no other referenced identifier has a declaration, scored_snippets    *)
(* returns exactly one ScoredSnippet, for that identifier; identifiers      *)
(* without declarations contribute no snippets.                             *)
C8_CallSite ==
    /\ \A n \in Identifiers : CallSite(n) =>
        /\ pc # "panicked"
        /\ pc = "done" =>
            /\ Len(out) = 1
            /\ out[1].identifier = n
            /\ out[1].declaration.id = index[n][1].id
    /\ \A i \in 1..Len(out) : index[out[i].identifier] # <<>>

\* the call returned at a call site whose excerpt also references an
\* undeclared identifier
C8_Witness ==
    /\ pc = "done"
    /\ \E n \in Identifiers : CallSite(n)
    /\ Cardinality(Referenced) = 2
    /\ Len(out) = 1

AllMeasuresZero(c) ==
    /\ RZero(c.containing_range_vs_item_jaccard)
    /\ RZero(c.containing_range_vs_signature_jaccard)
    /\ RZero(c.adjacent_vs_item_jaccard)
    /\ RZero(c.adjacent_vs_signature_jaccard)
    /\ RZero(c.containing_range_vs_item_weighted_overlap)
    /\ RZero(c.containing_range_vs_signature_weighted_overlap)
    /\ RZero(c.adjacent_vs_item_weighted_overlap)
    /\ RZero(c.adjacent_vs_signature_weighted_overlap)

(* C9: a buffer-backed candidate whose buffer has been released is not      *)
(* dropped: its item and signature text are empty, it still yields a        *)
(* ScoredSnippet, all of its similarity measures are zero, and the          *)
(* declaration_count of the identifier's other candidates is unchanged.     *)
C9_ReleasedBuffer ==
    \A n \in Scored : \A d \in Fetched(n) :
        Released(d) =>
            /\ item_text(d, buffers).text = <<>>
            /\ signature_text(d, buffers).text = <<>>
            /\ Cardinality(SnippetsFor(n, d)) = 1
            /\ \A i \in SnippetsFor(n, d) : AllMeasuresZero(out[i].score_components)
            /\ \A i \in SnippetsOf(n) :
                    out[i].score_components.declaration_count = FetchedCount(n)

\* a returned call scored a released candidate next to a live one whose
\* measures are not all zero
C9_Witness ==
    /\ pc = "done"
    /\ \E n \in Scored :
        /\ \E d \in Fetched(n) : Released(d)
        /\ \E i \in SnippetsOf(n) :
            /\ ~Released(out[i].declaration)
            /\ ~AllMeasuresZero(out[i].score_components)
            /\ out[i].score_components.declaration_count >= 2

(* C10: scored_snippets completes and returns the snippets of every         *)
(* identifier for any input map: no condition met while scoring one         *)
(* identifier (an empty reference list, a released buffer, unresolvable     *)
(* text) aborts the call.                                                   *)
C10_CallCompletes == pc # "panicked"


----------------------------------------------------------------------------
(* Specification of declarations: from_outline, item_text, signature_text *)

\* a line of k bytes, its newline included
Line(k) == [i \in 1..k |-> IF i = k THEN "\n" ELSE "a"]

RECURSIVE Lines(_)
Lines(lengths) ==
    IF lengths = <<>> THEN <<>>
    ELSE Line(Head(lengths)) \o Lines(Tail(lengths))

WithoutFinalNewline(text) == SubSeq(text, 1, Len(text) - 1)

\* file contents with the offsets at which an outline range may start or end:
\* short lines, a line over the truncation length, lines of exactly and of
\* one more than the truncation length, an item of two long lines, and a
\* text whose last line has no newline
DeclarationSources ==
    {[text |-> Lines(<<3, 3, 3>>), offsets |-> {0, 1, 3, 5, 9}],
     [text |-> Lines(<<3, ITEM_TEXT_TRUNCATION_LENGTH + 6, 3>>),
      offsets |-> {3, 4, 9, ITEM_TEXT_TRUNCATION_LENGTH + 6, ITEM_TEXT_TRUNCATION_LENGTH + 9}],
     [text |-> Lines(<<ITEM_TEXT_TRUNCATION_LENGTH, 3>>),
      offsets |-> {0, 5, ITEM_TEXT_TRUNCATION_LENGTH - 1, ITEM_TEXT_TRUNCATION_LENGTH + 1}],
     [text |-> Lines(<<ITEM_TEXT_TRUNCATION_LENGTH + 1, 3>>),
      offsets |-> {0, 5, ITEM_TEXT_TRUNCATION_LENGTH, ITEM_TEXT_TRUNCATION_LENGTH + 2}],
     [text |-> Lines(<<600, 600, 3>>), offsets |-> {0, 10, 700, 1100, 1200}],
     [text |-> WithoutFinalNewline(Lines(<<3, 3>>)), offsets |-> {0, 1, 3, 4, 5}]}

\* OutlineDeclaration: a non-empty item range with the signature range inside
OutlineDeclarations(offsets) ==
    {Outline("a", <<s, e>>, <<ss, se>>) :
        <<s, e, ss, se>> \in {q \in offsets \X offsets \X offsets \X offsets :
            q[1] < q[2] /\ q[1] <= q[3] /\ q[3] <= q[4] /\ q[4] <= q[2]}}

Variants == {"file", "buffer"}

InitDeclaration ==
    /\ \E source \in DeclarationSources :
          /\ buffers = [b \in {OtherBuffer} |-> [text |-> source.text, alive |-> TRUE]]
          /\ outline_declaration \in OutlineDeclarations(source.offsets)
    /\ built = [v \in Variants |-> None]
    /\ texts = [v \in Variants |-> [item |-> None, signature |-> None]]
    /\ pc = "idle"
    /\ index = [n \in Identifiers |-> <<>>]
    /\ request = IdleRequest
    /\ remaining = {}
    /\ out = <<>>
    /\ NoScore
    /\ NoIndexing
    /\ NoRun
    /\ NoMention
    /\ NoMatching
    /\ NoSuperseded

\* the index stores the declaration of a file that is not open:
\* FileDeclaration::from_outline on the file's snapshot
FromOutlineFile ==
    /\ pc = "idle"
    /\ built["file"] = None
    /\ built' = [built EXCEPT !["file"] =
            Some(FileDeclarationFromOutline(1, OtherBuffer, outline_declaration,
                                            buffers[OtherBuffer].text))]
    /\ UNCHANGED <<mentionVars, fuzzyVars, supersededVars, runVars, scoringVars, scoreVars, indexingVars, outline_declaration, texts>>

\* the index stores the declaration of an open buffer
FromOutlineBuffer ==
    /\ pc = "idle"
    /\ built["buffer"] = None
    /\ built' = [built EXCEPT !["buffer"] =
            Some(BufferDeclarationFromOutline(2, OtherBuffer, outline_declaration))]
    /\ UNCHANGED <<mentionVars, fuzzyVars, supersededVars, runVars, scoringVars, scoreVars, indexingVars, outline_declaration, texts>>

\* Declaration::item_text
ItemText(v) ==
    /\ pc = "idle"
    /\ built[v] # None
    /\ texts[v].item = None
    /\ texts' = [texts EXCEPT ![v].item = Some(item_text(Unwrap(built[v]), buffers))]
    /\ UNCHANGED <<mentionVars, fuzzyVars, supersededVars, runVars, scoringVars, scoreVars, indexingVars, outline_declaration, built>>

\* &declaration.text[range] panics when range.start > range.end or
\* range.end > text.len()
SlicePanics(text, range) == range[1] > range[2] \/ range[2] > Len(text)

\* Declaration::signature_text
SignatureText(v) ==
    /\ pc = "idle"
    /\ built[v] # None
    /\ texts[v].signature = None
    /\ LET declaration == Unwrap(built[v])
       IN  IF /\ declaration.kind = "File"
              /\ SlicePanics(declaration.text, declaration.signature_range_in_text)
           THEN /\ pc' = "panicked"
                /\ UNCHANGED texts
           ELSE /\ texts' = [texts EXCEPT ![v].signature =
                        Some(signature_text(declaration, buffers))]
                /\ pc' = pc
    /\ UNCHANGED <<mentionVars, fuzzyVars, supersededVars, runVars, index, buffers, request, remaining, out, scoreVars,
                   indexingVars, outline_declaration, built>>

NextDeclaration ==
    \/ FromOutlineFile
    \/ FromOutlineBuffer
    \/ \E v \in Variants : ItemText(v)
    \/ \E v \in Variants : SignatureText(v)

SpecDeclaration == InitDeclaration /\ [][NextDeclaration]_vars


----------------------------------------------------------------------------
(* Properties of declarations *)

Built(v) == built[v] # None
FileDeclaration == Unwrap(built["file"])
SourceText == buffers[OtherBuffer].text

\* offset of column 0 of the line holding `offset`
LineStart(text, offset) ==
    CHOOSE o \in 0..offset :
        /\ o = 0 \/ text[o] = "\n"
        /\ \A j \in (o + 1)..offset : text[j] # "\n"

\* offset of column 0 of the line after the one holding `offset`, or the end
\* of the text when that line is the last
FollowingLineStart(text, offset) ==
    IF \E p \in (offset + 1)..Len(text) : text[p] = "\n"
    THEN CHOOSE p \in (offset + 1)..Len(text) :
            /\ text[p] = "\n"
            /\ \A j \in (offset + 1)..(p - 1) : text[j] # "\n"
    ELSE Len(text)

\* the range covering the whole lines of `range`
WholeLines(text, range) ==
    <<LineStart(text, range[1]), FollowingLineStart(text, range[2])>>

RangeLen(range) == range[2] - range[1]

(* C11: every FileDeclaration built by from_outline has                      *)
(* signature_range_in_text.start <= end <= text.len(), also when the         *)
(* signature begins after the truncation point, so signature_text never      *)
(* slices outside the stored text; signature_is_truncated is true exactly    *)
(* when the signature's end lies beyond the end of the truncated item text.  *)
C11_SignatureRangeInText ==
    /\ pc # "panicked"
    /\ Built("file") =>
        LET d == FileDeclaration
            r == d.signature_range_in_text
        IN  /\ r[1] <= r[2]
            /\ r[2] <= Len(d.text)
            /\ d.signature_is_truncated <=>
                   outline_declaration.signature_range[2] >
                       d.item_range_in_file[1] + Len(d.text)


\* what the calls of expand_range_to_line_boundaries_and_truncate returned:
\* the range it was given, the text it returned and the truncation flag
Expansions ==
    {[range |-> outline_declaration.item_range,
      text |-> Unwrap(built[v]).text,
      is_truncated |-> Unwrap(built[v]).text_is_truncated] :
        v \in {w \in {"file"} : Built(w)}}
    \cup {[range |-> outline_declaration.item_range,
           text |-> Unwrap(texts[v].item).text,
           is_truncated |-> Unwrap(texts[v].item).is_truncated] :
        v \in {w \in {"buffer"} : texts[w].item # None}}
    \cup {[range |-> outline_declaration.signature_range,
           text |-> Unwrap(texts[v].signature).text,
           is_truncated |-> Unwrap(texts[v].signature).is_truncated] :
        v \in {w \in {"buffer"} : texts[w].signature # None}}

(* C12: expand_range_to_line_boundaries_and_truncate returns a range that    *)
(* starts at column 0 of the first line of the input range and, when nothing *)
(* is truncated, ends at the start of the line after the input range's last  *)
(* line (the end of the text when that line is the last); the length         *)
(* compared with the limit is the length after this expansion.               *)
C12_LineBoundaries ==
    /\ Built("file") =>
        LET d == FileDeclaration
            lines == WholeLines(SourceText, outline_declaration.item_range)
        IN  /\ d.item_range_in_file[1] = lines[1]
            /\ ~d.text_is_truncated => d.item_range_in_file = lines
    /\ \A x \in Expansions :
        LET lines == WholeLines(SourceText, x.range)
        IN  /\ x.is_truncated <=> RangeLen(lines) > ITEM_TEXT_TRUNCATION_LENGTH
            /\ ~x.is_truncated => x.text = TextForRange(SourceText, lines)
            /\ x.is_truncated =>
                   x.text = TextForRange(SourceText,
                                <<lines[1], lines[1] + ITEM_TEXT_TRUNCATION_LENGTH>>)

\* an item that starts and ends inside lines, with a line after it, was
\* expanded without truncation
C12_Witness ==
    /\ Built("file")
    /\ ~FileDeclaration.text_is_truncated
    /\ FileDeclaration.item_range_in_file[1] < outline_declaration.item_range[1]
    /\ outline_declaration.item_range[2] < FileDeclaration.item_range_in_file[2]
    /\ FileDeclaration.item_range_in_file[2] < Len(SourceText)
    /\ texts["buffer"].signature # None

\* the item texts returned so far, stored ones included
ItemTexts ==
    {Unwrap(texts[v].item) : v \in {w \in Variants : texts[w].item # None}}
    \cup {[text |-> Unwrap(built[v]).text,
           is_truncated |-> Unwrap(built[v]).text_is_truncated] :
            v \in {w \in {"file"} : Built(w)}}

(* C13: the item text of every declaration, file- or buffer-backed, is at    *)
(* most 1024 bytes long; its truncation flag is true if and only if the      *)
(* line-expanded item range is longer than 1024 bytes, and when the flag is  *)
(* false the text is the whole line-expanded range.                          *)
C13_ItemTextLength ==
    \A t \in ItemTexts :
        LET lines == WholeLines(SourceText, outline_declaration.item_range)
        IN  /\ Len(t.text) <= 1024
            /\ t.is_truncated <=> RangeLen(lines) > 1024
            /\ ~t.is_truncated =>
                /\ Len(t.text) = RangeLen(lines)
                /\ t.text = TextForRange(SourceText, lines)

\* both variants returned a truncated item text of exactly 1024 bytes
C13_Witness ==
    /\ \A v \in Variants : texts[v].item # None
    /\ \A v \in Variants :
        /\ Unwrap(texts[v].item).is_truncated
        /\ Len(Unwrap(texts[v].item).text) = 1024
    /\ RangeLen(WholeLines(SourceText, outline_declaration.item_range)) = 1025

(* C14: for the same outline declaration and a buffer unchanged since        *)
(* indexing, item_text of the buffer-backed declaration returns the same     *)
(* text and truncation flag as item_text of the file-backed declaration      *)
(* built by from_outline.                                                    *)
C14_SameItemText ==
    (texts["file"].item # None /\ texts["buffer"].item # None)
        => texts["file"].item = texts["buffer"].item

\* both variants were read for an item inside lines, over the truncation length
C14_Witness ==
    /\ texts["file"].item # None
    /\ texts["buffer"].item # None
    /\ Unwrap(texts["buffer"].item).is_truncated
    /\ LineStart(SourceText, outline_declaration.item_range[1])
           < outline_declaration.item_range[1]


(* C28: for the same outline declaration and a buffer unchanged since        *)
(* indexing, signature_text of the buffer-backed declaration returns the     *)
(* same text and truncation flag as signature_text of the file-backed        *)
(* declaration built by from_outline.                                        *)
C28_SameSignatureText ==
    (texts["file"].signature # None /\ texts["buffer"].signature # None)
        => texts["file"].signature = texts["buffer"].signature

----------------------------------------------------------------------------
(* Frame of scored_snippets *)

\* every declaration the index stores, under any identifier
StoredDeclarations(idx) ==
    UNION {{idx[n][i] : i \in 1..Len(idx[n])} : n \in DOMAIN idx}

(* C15: scored_snippets only reads the syntax index: no step of a call       *)
(* changes the index's identifier mapping, its stored declarations or the    *)
(* number of declarations it counts for any file.                            *)
C15_IndexOnlyRead ==
    [][/\ index' = index
       /\ StoredDeclarations(index') = StoredDeclarations(index)
       /\ \A d \in StoredDeclarations(index) :
            file_declaration_count(index', d) = file_declaration_count(index, d)]_vars

\* a call that fetched declarations from the index and returned snippets
C15_Witness ==
    /\ pc = "done"
    /\ out # <<>>
    /\ \E n \in DOMAIN request.identifier_to_references :
            declarations_for_identifier(index, n) # <<>>


----------------------------------------------------------------------------
(* Specification of the syntax index: its maintenance as files are indexed, *)
(* opened, edited, closed and deleted                                       *)

ProjectFiles == {CursorBuffer, OtherBuffer}

\* the contents a file or buffer can have, each with the outline of its text
Contents ==
    <<[text |-> CursorText, outline |-> CursorOutline],
      [text |-> OtherText, outline |-> OtherOutline]>>

ContentOf(text) == CHOOSE c \in 1..Len(Contents) : Contents[c].text = text

ClosedBuffer == [text |-> <<>>, alive |-> FALSE]

\* the file-backed declarations of a file with content c
FileDeclarations(file, c) ==
    [k \in 1..Len(Contents[c].outline) |->
        FileDeclarationFromOutline(<<file, "File", c, k>>, file,
                                   Contents[c].outline[k], Contents[c].text)]

\* the buffer-backed declarations of a buffer with content c
BufferDeclarations(file, c) ==
    [k \in 1..Len(Contents[c].outline) |->
        BufferDeclarationFromOutline(<<file, "Buffer", c, k>>, file,
                                     Contents[c].outline[k])]

SetOf(declarations) == {declarations[k] : k \in 1..Len(declarations)}

\* the result of an extraction
Extracted(file, e) ==
    IF e.kind = "File" THEN FileDeclarations(file, e.content)
    ELSE BufferDeclarations(file, e.content)

\* the declarations of a file as the index holds them
EntriesOf(idx, file) ==
    {d \in StoredDeclarations(idx) : DeclarationFile(d) = file}

\* one mutation: every declaration of the file leaves the index and the given
\* ones enter it
ReplaceEntries(idx, file, replacement) ==
    [n \in DOMAIN idx |->
        SelectSeq(idx[n], LAMBDA d : DeclarationFile(d) # file)
            \o Named(replacement, n)]

\* an extraction still describes its source: the file is closed and has the
\* content on disk, or the buffer is open and has the content
Current(file, e) ==
    IF e.kind = "File"
    THEN ~buffers[file].alive /\ disk[file] = Some(e.content)
    ELSE buffers[file].alive /\ buffers[file].text = Contents[e.content].text

InitIndex ==
    /\ index = [n \in Identifiers |-> <<>>]
    /\ buffers = [f \in ProjectFiles |-> ClosedBuffer]
    /\ disk = [f \in ProjectFiles |-> Some(IF f = CursorBuffer THEN 1 ELSE 2)]
    /\ extraction = [f \in ProjectFiles |-> None]
    /\ request = IdleRequest
    /\ pc = "idle"
    /\ remaining = {}
    /\ out = <<>>
    /\ NoScore
    /\ NoDeclaration
    /\ NoRun
    /\ NoMention
    /\ NoMatching
    /\ NoSuperseded

\* the sweep, a change on disk or a closed buffer starts the extraction of a
\* file that is not open and whose entries are not those of its content
BeginFileExtraction(file) ==
    /\ extraction[file] = None
    /\ ~buffers[file].alive
    /\ disk[file] # None
    /\ EntriesOf(index, file) # SetOf(FileDeclarations(file, Unwrap(disk[file])))
    /\ extraction' = [extraction EXCEPT ![file] =
            Some([kind |-> "File", content |-> Unwrap(disk[file])])]
    /\ UNCHANGED <<mentionVars, fuzzyVars, supersededVars, runVars, scoringVars, scoreVars, declarationVars, disk>>

\* the debounced re-outline of an edited buffer starts
BeginBufferExtraction(file) ==
    /\ extraction[file] = None
    /\ buffers[file].alive
    /\ EntriesOf(index, file) #
            SetOf(BufferDeclarations(file, ContentOf(buffers[file].text)))
    /\ extraction' = [extraction EXCEPT ![file] =
            Some([kind |-> "Buffer", content |-> ContentOf(buffers[file].text)])]
    /\ UNCHANGED <<mentionVars, fuzzyVars, supersededVars, runVars, scoringVars, scoreVars, declarationVars, disk>>

\* faulty variant: the result reaches the index one identifier at a time
CommitExtraction_by_identifier(file) ==
    /\ extraction[file] # None
    /\ Current(file, Unwrap(extraction[file]))
    /\ \E n \in Identifiers :
        index' = [index EXCEPT ![n] =
            ReplaceEntries(index, file, Extracted(file, Unwrap(extraction[file])))[n]]
    /\ extraction' = [extraction EXCEPT ![file] = None]
    /\ UNCHANGED <<mentionVars, fuzzyVars, supersededVars, runVars, buffers, request, pc, remaining, out, scoreVars, declarationVars, disk>>

\* a finished extraction replaces the file's entries in one mutation
CommitExtraction(file) ==
    /\ extraction[file] # None
    /\ Current(file, Unwrap(extraction[file]))
    /\ index' = ReplaceEntries(index, file, Extracted(file, Unwrap(extraction[file])))
    /\ extraction' = [extraction EXCEPT ![file] = None]
    /\ UNCHANGED <<mentionVars, fuzzyVars, supersededVars, runVars, buffers, request, pc, remaining, out, scoreVars, declarationVars, disk>>

\* an extraction whose file was deleted, opened, closed or changed meanwhile
\* is cancelled
CancelExtraction(file) ==
    /\ extraction[file] # None
    /\ ~Current(file, Unwrap(extraction[file]))
    /\ extraction' = [extraction EXCEPT ![file] = None]
    /\ UNCHANGED <<mentionVars, fuzzyVars, supersededVars, runVars, scoringVars, scoreVars, declarationVars, disk>>

\* faulty variant: the file-backed entries stay when the buffer opens
OpenBuffer_keeping_file_entries(file) ==
    /\ ~buffers[file].alive
    /\ disk[file] # None
    /\ buffers' = [buffers EXCEPT ![file] =
            [text |-> Contents[Unwrap(disk[file])].text, alive |-> TRUE]]
    /\ index' = [n \in DOMAIN index |->
            index[n] \o Named(BufferDeclarations(file, Unwrap(disk[file])), n)]
    /\ UNCHANGED <<mentionVars, fuzzyVars, supersededVars, runVars, request, pc, remaining, out, scoreVars, declarationVars, indexingVars>>

\* a file is opened for editing: its file-backed entries are dropped and
\* buffer-backed ones inserted
OpenBuffer(file) ==
    /\ ~buffers[file].alive
    /\ disk[file] # None
    /\ buffers' = [buffers EXCEPT ![file] =
            [text |-> Contents[Unwrap(disk[file])].text, alive |-> TRUE]]
    /\ index' = ReplaceEntries(index, file, BufferDeclarations(file, Unwrap(disk[file])))
    /\ UNCHANGED <<mentionVars, fuzzyVars, supersededVars, runVars, request, pc, remaining, out, scoreVars, declarationVars, indexingVars>>

\* an edit changes the buffer's content; the anchors of its entries follow
EditBuffer(file) ==
    /\ buffers[file].alive
    /\ \E c \in 1..Len(Contents) :
        /\ Contents[c].text # buffers[file].text
        /\ buffers' = [buffers EXCEPT ![file].text = Contents[c].text]
    /\ UNCHANGED <<mentionVars, fuzzyVars, supersededVars, runVars, index, request, pc, remaining, out, scoreVars, declarationVars, indexingVars>>

\* the buffer closes: its entries are removed
CloseBuffer(file) ==
    /\ buffers[file].alive
    /\ buffers' = [buffers EXCEPT ![file] = ClosedBuffer]
    /\ index' = ReplaceEntries(index, file, <<>>)
    /\ UNCHANGED <<mentionVars, fuzzyVars, supersededVars, runVars, request, pc, remaining, out, scoreVars, declarationVars, indexingVars>>

\* the file is deleted from the project: its file-backed entries are removed
DeleteFile(file) ==
    /\ disk[file] # None
    /\ disk' = [disk EXCEPT ![file] = None]
    /\ index' = IF buffers[file].alive THEN index
                ELSE ReplaceEntries(index, file, <<>>)
    /\ UNCHANGED <<mentionVars, fuzzyVars, supersededVars, runVars, buffers, request, pc, remaining, out, scoreVars, declarationVars, extraction>>

\* the file is created or changed on disk outside the editor
WriteFile(file) ==
    /\ \E c \in 1..Len(Contents) :
        /\ disk[file] # Some(c)
        /\ disk' = [disk EXCEPT ![file] = Some(c)]
    /\ UNCHANGED <<mentionVars, fuzzyVars, supersededVars, runVars, scoringVars, scoreVars, declarationVars, extraction>>

NextIndex ==
    \E file \in ProjectFiles :
        \/ BeginFileExtraction(file)
        \/ BeginBufferExtraction(file)
        \/ CommitExtraction(file)
        \/ CancelExtraction(file)
        \/ OpenBuffer(file)
        \/ EditBuffer(file)
        \/ CloseBuffer(file)
        \/ DeleteFile(file)
        \/ WriteFile(file)

SpecIndex == InitIndex /\ [][NextIndex]_vars


----------------------------------------------------------------------------
(* Properties of the syntax index *)

FileBacked(file) == {d \in EntriesOf(index, file) : d.kind = "File"}
BufferBacked(file) == {d \in EntriesOf(index, file) : d.kind = "Buffer"}

WholeEntries(file) ==
    {{}} \cup {SetOf(Extracted(file, [kind |-> k, content |-> c])) :
                k \in {"File", "Buffer"}, c \in 1..Len(Contents)}

\* the extraction of the file is dropped without having been committed
Cancelled(file) ==
    /\ extraction[file] # None
    /\ ~Current(file, Unwrap(extraction[file]))
    /\ extraction'[file] = None

(* C17: a reader of the index sees, whenever it reads, for every file        *)
(* either no entry or the whole result of one extraction; every mutation     *)
(* (sweep insertion, re-outline, open, close, deletion) replaces all entries *)
(* of one file at once and touches no other file; a cancelled extraction     *)
(* leaves the index as it was.                                               *)
C17_WholeSnapshots ==
    /\ [](\A file \in ProjectFiles : EntriesOf(index, file) \in WholeEntries(file))
    /\ [][\/ index' = index
          \/ \E file \in ProjectFiles :
                /\ EntriesOf(index', file) \in WholeEntries(file)
                /\ \A n \in DOMAIN index :
                    SelectSeq(index'[n], LAMBDA d : DeclarationFile(d) # file)
                        = SelectSeq(index[n], LAMBDA d : DeclarationFile(d) # file)]_vars
    /\ [][\A file \in ProjectFiles : Cancelled(file) => index' = index]_vars

\* an extraction is in flight for a file whose entries it would replace,
\* while the other file's entries are in the index
C17_Witness ==
    \E file \in ProjectFiles, other \in ProjectFiles :
        /\ extraction[file] # None
        /\ EntriesOf(index, file) # {}
        /\ EntriesOf(index, file) # SetOf(Extracted(file, Unwrap(extraction[file])))
        /\ other # file
        /\ EntriesOf(index, other) # {}


----------------------------------------------------------------------------
(* examples/zeta_context.rs: Command::Run, with excerpt selection and the   *)
(* prompt planner                                                            *)

\* ExcerptOptions: f32 fractions are kept as <<numerator, denominator>>
ExcerptOptions(max_bytes, min_bytes, target) ==
    [max_bytes |-> max_bytes, min_bytes |-> min_bytes,
     target_before_cursor_over_total_bytes |-> target]

\* the line holding the offset, its newline included
LineRange(text, offset) ==
    LET row == RowOfOffset(text, offset)
    IN  <<RowStartOffset(text, row), RowStartOffset(text, row + 1)>>

\* grow the range outward one whole line at a time while the line fits
\* max_bytes, towards the side that brings the share of bytes before the
\* cursor nearer to the target
RECURSIVE Grow(_, _, _, _, _)
Grow(text, range, cursor_offset, max_bytes, target) ==
    LET size == range[2] - range[1]
        before == LineRange(text, Max(range[1] - 1, 0))
        after == LineRange(text, range[2])
        can_before == range[1] > 0 /\ size + (before[2] - before[1]) <= max_bytes
        can_after == range[2] < Len(text) /\ size + (after[2] - after[1]) <= max_bytes
        wants_before == (cursor_offset - range[1]) * target[2] < target[1] * size
    IN  IF ~can_before /\ ~can_after THEN range
        ELSE IF can_before /\ (wants_before \/ ~can_after)
             THEN Grow(text, <<before[1], range[2]>>, cursor_offset, max_bytes, target)
             ELSE Grow(text, <<range[1], after[2]>>, cursor_offset, max_bytes, target)

\* faulty variant: lines are added until the file is exhausted
select_without_limit(text, cursor_offset, options) ==
    LET line == LineRange(text, cursor_offset)
        range == Grow(text, line, cursor_offset, Len(text),
                      options.target_before_cursor_over_total_bytes)
    IN  IF line[2] - line[1] > options.max_bytes THEN None
        ELSE IF range[2] - range[1] < options.min_bytes THEN None
        ELSE Some([excerpt_range |-> range])

\* ExcerptRangesInput::select: None when the cursor's line alone exceeds
\* max_bytes or the grown excerpt stays below min_bytes
select(text, cursor_offset, options) ==
    LET line == LineRange(text, cursor_offset)
        range == Grow(text, line, cursor_offset, options.max_bytes,
                      options.target_before_cursor_over_total_bytes)
    IN  IF line[2] - line[1] > options.max_bytes THEN None
        ELSE IF range[2] - range[1] < options.min_bytes THEN None
        ELSE Some([excerpt_range |-> range])

range_size(range) == range[2] - range[1]

\* a scored snippet as the planner sees it: its score and its rendered size
Snippet(score_value, size) == [score |-> score_value, size |-> size]

\* insert behind every snippet that does not score lower: the order is
\* descending by score and stable
RECURSIVE InsertByScore(_, _, _)
InsertByScore(sorted, i, snippets) ==
    IF sorted = <<>> THEN <<i>>
    ELSE IF snippets[Head(sorted)].score >= snippets[i].score
         THEN <<Head(sorted)>> \o InsertByScore(Tail(sorted), i, snippets)
         ELSE <<i>> \o sorted

RECURSIVE RankedUpTo(_, _)
RankedUpTo(snippets, n) ==
    IF n = 0 THEN <<>>
    ELSE InsertByScore(RankedUpTo(snippets, n - 1), n, snippets)

\* the snippets' positions, best first
Ranked(snippets) == RankedUpTo(snippets, Len(snippets))

\* take snippets whole, in rank order, until one does not fit
RECURSIVE Pack(_, _, _)
Pack(snippets, ranked, budget) ==
    IF ranked = <<>> THEN <<>>
    ELSE IF snippets[Head(ranked)].size <= budget
         THEN <<Head(ranked)>>
                \o Pack(snippets, Tail(ranked), budget - snippets[Head(ranked)].size)
         ELSE <<>>

\* faulty variant of Pack: every snippet that fits is taken, in rank order
RECURSIVE PackFitting(_, _, _)
PackFitting(snippets, ranked, budget) ==
    IF ranked = <<>> THEN <<>>
    ELSE IF snippets[Head(ranked)].size <= budget
         THEN <<Head(ranked)>>
                \o PackFitting(snippets, Tail(ranked), budget - snippets[Head(ranked)].size)
         ELSE PackFitting(snippets, Tail(ranked), budget)

\* faulty variant of Pack: the snippet that no longer fits is still taken,
\* and packing stops behind it
RECURSIVE PackOvershooting(_, _, _)
PackOvershooting(snippets, ranked, budget) ==
    IF ranked = <<>> THEN <<>>
    ELSE IF snippets[Head(ranked)].size <= budget
         THEN <<Head(ranked)>>
                \o PackOvershooting(snippets, Tail(ranked),
                                    budget - snippets[Head(ranked)].size)
         ELSE <<Head(ranked)>>

\* faulty variant: the budget is checked after a snippet went in
populate_overshooting(snippets, ranges, prompt_limit) ==
    [excerpt_range |-> ranges.excerpt_range,
     snippets |-> PackOvershooting(snippets, Ranked(snippets),
                      SaturatingSub(prompt_limit, range_size(ranges.excerpt_range)))]

\* faulty variant: a snippet that does not fit is passed over and packing
\* goes on with the lower-ranked ones
populate_first_fit(snippets, ranges, prompt_limit) ==
    [excerpt_range |-> ranges.excerpt_range,
     snippets |-> PackFitting(snippets, Ranked(snippets),
                      SaturatingSub(prompt_limit, range_size(ranges.excerpt_range)))]

\* PromptPlanner::populate: the excerpt always, then snippets by rank
populate(snippets, ranges, prompt_limit) ==
    [excerpt_range |-> ranges.excerpt_range,
     snippets |-> Pack(snippets, Ranked(snippets),
                      SaturatingSub(prompt_limit, range_size(ranges.excerpt_range)))]

\* PlannedPrompt::to_prompt_string: the excerpt's text and, for each included
\* snippet, its position in the list and its rendered bytes
to_prompt_string(prompt, source, snippets) ==
    [excerpt |-> TextForRange(source, prompt.excerpt_range),
     snippets |-> [k \in 1..Len(prompt.snippets) |->
                    [position |-> prompt.snippets[k],
                     bytes |-> snippets[prompt.snippets[k]].size]]]

RECURSIVE SumSizes(_)
SumSizes(rendered) ==
    IF rendered = <<>> THEN 0 ELSE Head(rendered).bytes + SumSizes(Tail(rendered))

\* prompt_string.len()
PromptLen(prompt_string) == Len(prompt_string.excerpt) + SumSizes(prompt_string.snippets)


\* source files of the run: lines of different lengths, a line longer than
\* the smaller windows, a last line without newline
RunSources ==
    {Lines(<<4, 6, 3, 5>>), Lines(<<3, 12, 3>>), WithoutFinalNewline(Lines(<<5, 5>>))}

\* the cursor inside each line, and at the end of the file
CursorOffsets(text) ==
    {RowStartOffset(text, row) + 1 : row \in 0..NewlineCount(text, Len(text))}
        \cup {Len(text)}

RunExcerptOptions ==
    {ExcerptOptions(max_bytes, min_bytes, target) :
        max_bytes \in {4, 8, 13}, min_bytes \in {0, 6}, target \in {<<1, 2>>, <<1, 4>>}}

\* what gather_snippets returns: no snippet, or three of two scores and sizes
RunSnippets ==
    {<<>>} \cup
    {<<Snippet(s[1], z[1]), Snippet(s[2], z[2]), Snippet(s[3], z[3])>> :
        s \in {1, 2} \X {1, 2} \X {1, 2}, z \in {2, 5} \X {2, 5} \X {2, 5}}

InitRun ==
    /\ \E source \in RunSources :
          run_input \in
            [source : {source},
             cursor_offset : {o \in CursorOffsets(source) : o <= Len(source)},
             excerpt_options : RunExcerptOptions,
             snippets : RunSnippets,
             prompt_limit : {6, 10, 16}]
    /\ excerpt_ranges = None
    /\ planned_prompt = None
    /\ printed = None
    /\ logged = {}
    /\ pc = "start"
    /\ index = [n \in Identifiers |-> <<>>]
    /\ buffers = <<>>
    /\ request = IdleRequest
    /\ remaining = {}
    /\ out = <<>>
    /\ NoScore
    /\ NoDeclaration
    /\ NoIndexing
    /\ NoMention
    /\ NoMatching
    /\ NoSuperseded

\* faulty variant: a cursor line that does not fit is cut to the window and
\* the run goes on
SelectExcerpt_truncating ==
    /\ pc = "start"
    /\ LET selected == select(run_input.source, run_input.cursor_offset,
                              run_input.excerpt_options)
           line == LineRange(run_input.source, run_input.cursor_offset)
       IN  /\ excerpt_ranges' =
                IF selected = None
                THEN Some([excerpt_range |->
                        <<line[1], Min(line[2],
                            line[1] + run_input.excerpt_options.max_bytes)>>])
                ELSE selected
           /\ pc' = "selected"
    /\ UNCHANGED <<mentionVars, fuzzyVars, supersededVars, index, buffers, request, remaining, out, scoreVars,
                   declarationVars, indexingVars, run_input, planned_prompt,
                   printed, logged>>

\* let Some(excerpt_ranges) = ExcerptRangesInput { .. }.select() else {
\*     return Err(anyhow!("line containing cursor does not fit within window")) }
SelectExcerpt ==
    /\ pc = "start"
    /\ LET selected == select(run_input.source, run_input.cursor_offset,
                              run_input.excerpt_options)
       IN  IF selected = None
           THEN /\ pc' = "failed"
                /\ logged' = logged \cup
                        {"line containing cursor does not fit within window"}
                /\ UNCHANGED excerpt_ranges
           ELSE /\ excerpt_ranges' = selected
                /\ pc' = "selected"
                /\ UNCHANGED logged
    /\ UNCHANGED <<mentionVars, fuzzyVars, supersededVars, index, buffers, request, remaining, out, scoreVars,
                   declarationVars, indexingVars, run_input, planned_prompt, printed>>

\* gather_snippets, PromptPlanner::populate, to_prompt_string, println!
PlanPrompt ==
    /\ pc = "selected"
    /\ LET prompt == populate(run_input.snippets, Unwrap(excerpt_ranges),
                              run_input.prompt_limit)
       IN  /\ planned_prompt' = Some(prompt)
           /\ printed' = Some(to_prompt_string(prompt, run_input.source,
                                               run_input.snippets))
    /\ pc' = "printed"
    /\ UNCHANGED <<mentionVars, fuzzyVars, supersededVars, index, buffers, request, remaining, out, scoreVars,
                   declarationVars, indexingVars, run_input, excerpt_ranges, logged>>

\* the two size checks after printing: an excess is logged when it is more
\* than 5% of the window and more than 10% of the prompt limit
CheckSizes ==
    /\ pc = "printed"
    /\ LET actual_window_size == range_size(Unwrap(excerpt_ranges).excerpt_range)
           window_max_bytes == run_input.excerpt_options.max_bytes
           prompt_len == PromptLen(Unwrap(printed))
           prompt_limit == run_input.prompt_limit
       IN  logged' = logged
            \cup (IF /\ actual_window_size > window_max_bytes
                     /\ (actual_window_size - window_max_bytes) * 100
                            > 5 * window_max_bytes
                  THEN {"Exceeded max main excerpt size"} ELSE {})
            \cup (IF /\ prompt_len > prompt_limit
                     /\ (prompt_len - prompt_limit) * 10 > prompt_limit
                  THEN {"Exceeded max prompt size"} ELSE {})
    /\ pc' = "done"
    /\ UNCHANGED <<mentionVars, fuzzyVars, supersededVars, index, buffers, request, remaining, out, scoreVars,
                   declarationVars, indexingVars, run_input, excerpt_ranges,
                   planned_prompt, printed>>

NextRun ==
    \/ SelectExcerpt
    \/ PlanPrompt
    \/ CheckSizes

SpecRun == InitRun /\ [][NextRun]_vars


----------------------------------------------------------------------------
(* Properties of the run *)

\* the whole line holding the cursor
CursorLine ==
    WholeLines(run_input.source, <<run_input.cursor_offset, run_input.cursor_offset>>)

Selected == Unwrap(excerpt_ranges).excerpt_range

(* C18: when the line holding the cursor alone exceeds max_bytes, excerpt    *)
(* selection returns the "too small" failure and no excerpt; the caller      *)
(* reports the error and produces no prompt.  An excerpt that is returned    *)
(* holds the cursor's whole line, never a cut one.                           *)
C18_TooSmallFailure ==
    pc # "start" =>
        /\ RangeLen(CursorLine) > run_input.excerpt_options.max_bytes =>
            /\ excerpt_ranges = None
            /\ pc = "failed"
            /\ "line containing cursor does not fit within window" \in logged
            /\ planned_prompt = None
            /\ printed = None
        /\ excerpt_ranges # None =>
            /\ Selected[1] <= CursorLine[1]
            /\ CursorLine[2] <= Selected[2]

\* the run failed on a cursor line longer than the window
C18_Witness ==
    /\ pc = "failed"
    /\ RangeLen(CursorLine) > run_input.excerpt_options.max_bytes
    /\ RangeLen(CursorLine) <= Len(run_input.source)

\* the longer of the first and the last line of a range of whole lines
BoundaryLine(text, range) ==
    Max(RangeLen(WholeLines(text, <<range[1], range[1]>>)),
        RangeLen(WholeLines(text, <<Max(range[2] - 1, range[1]), Max(range[2] - 1, range[1])>>)))

(* C19: whenever selection succeeds, the primary range is made of whole      *)
(* lines and exceeds max_bytes by no more than one of its lines.             *)
C19_WindowSlack ==
    excerpt_ranges # None =>
        /\ Selected[1] = LineStart(run_input.source, Selected[1])
        /\ Selected[2] = Len(run_input.source)
            \/ run_input.source[Selected[2]] = "\n"
        /\ range_size(Selected)
            <= run_input.excerpt_options.max_bytes
                + BoundaryLine(run_input.source, Selected)

\* selection stopped short of the file's end because the next line did not fit
C19_Witness ==
    /\ excerpt_ranges # None
    /\ Selected[1] < run_input.cursor_offset
    /\ Selected[2] < Len(run_input.source)
    /\ range_size(Selected) <= run_input.excerpt_options.max_bytes
    /\ FollowingLineStart(run_input.source, Selected[2]) - Selected[1]
            > run_input.excerpt_options.max_bytes

\* the position a snippet has when the list is ordered by descending score,
\* equal scores in their original order
RankOf(snippets, i) ==
    1 + Cardinality({j \in 1..Len(snippets) :
            \/ snippets[j].score > snippets[i].score
            \/ snippets[j].score = snippets[i].score /\ j < i})

ByRank(snippets) ==
    [k \in 1..Len(snippets) |->
        CHOOSE i \in 1..Len(snippets) : RankOf(snippets, i) = k]

\* bytes of the k best snippets
RECURSIVE BestSize(_, _)
BestSize(snippets, k) ==
    IF k = 0 THEN 0
    ELSE snippets[ByRank(snippets)[k]].size + BestSize(snippets, k - 1)

\* the budget left for snippets once the excerpt is in
SnippetBudget ==
    SaturatingSub(run_input.prompt_limit, range_size(Selected))

Included == Unwrap(planned_prompt).snippets

(* C20: the planner includes snippets strictly greedily by rank: the         *)
(* included snippets are the k best by descending score (ties in original    *)
(* order) for the largest k whose total fits the remaining budget, each      *)
(* rendered whole; packing stops at the first snippet that does not fit, so  *)
(* nothing ranked below a skipped snippet is included.                       *)
C20_GreedyByRank ==
    planned_prompt # None =>
        LET snippets == run_input.snippets
            k == Len(Included)
        IN  /\ k <= Len(snippets)
            /\ Included = SubSeq(ByRank(snippets), 1, k)
            /\ BestSize(snippets, k) <= SnippetBudget
            /\ k < Len(snippets) => BestSize(snippets, k + 1) > SnippetBudget
            /\ \A i \in 1..k :
                /\ Unwrap(printed).snippets[i].position = Included[i]
                /\ Unwrap(printed).snippets[i].bytes = snippets[Included[i]].size

\* a snippet was included, the next by rank did not fit, and one ranked
\* below it would have fitted
C20_Witness ==
    /\ planned_prompt # None
    /\ Len(Included) >= 1
    /\ Len(Included) + 2 <= Len(run_input.snippets)
    /\ \E j \in (Len(Included) + 2)..Len(run_input.snippets) :
        run_input.snippets[ByRank(run_input.snippets)[j]].size
            <= SnippetBudget - BestSize(run_input.snippets, Len(Included))
    /\ \E i \in 1..Len(Included) : Included[i] # i


----------------------------------------------------------------------------
(* Score inputs of scored_snippets: references, distances, ranks, counts *)

\* the row of an offset of the cursor's buffer: the newlines before it
RowAt(offset) ==
    Cardinality({k \in 1..offset : request.current_text[k] = "\n"})

CursorRow == RowAt(request.cursor_offset)

Components(i) == out[i].score_components

ReferencesOf(i) == request.identifier_to_references[out[i].identifier]

ReferenceDistances(i) ==
    {Abs(CursorRow - RowAt(ReferencesOf(i)[j].start)) : j \in 1..Len(ReferencesOf(i))}

(* C23: every snippet's reference inputs are taken over all references of   *)
(* its identifier: reference_count is their number, reference_line_distance *)
(* the least |cursor row - reference row| among them, is_referenced_nearby  *)
(* and is_referenced_in_breadcrumb hold iff one of them is tagged so.       *)
C23_AllReferencesConsumed ==
    \A i \in 1..Len(out) :
        /\ Components(i).reference_count = Len(ReferencesOf(i))
        /\ Components(i).reference_line_distance \in ReferenceDistances(i)
        /\ \A d \in ReferenceDistances(i) : Components(i).reference_line_distance <= d
        /\ Components(i).is_referenced_nearby <=>
                \E j \in 1..Len(ReferencesOf(i)) : ReferencesOf(i)[j].region = "Nearby"
        /\ Components(i).is_referenced_in_breadcrumb <=>
                \E j \in 1..Len(ReferencesOf(i)) : ReferencesOf(i)[j].region = "Breadcrumb"

\* a returned snippet whose identifier has two references, the second one
\* nearer to the cursor than the first and the only one tagged Nearby, and a
\* snippet whose second reference is the only one in a breadcrumb
C23_Witness ==
    /\ pc = "done"
    /\ \E i \in 1..Len(out) :
        /\ Len(ReferencesOf(i)) = 2
        /\ ReferencesOf(i)[1].region # "Nearby"
        /\ Components(i).is_referenced_nearby
        /\ Components(i).reference_line_distance
                < Abs(CursorRow - RowAt(ReferencesOf(i)[1].start))
    /\ \E i \in 1..Len(out) :
        /\ ReferencesOf(i)[1].region # "Breadcrumb"
        /\ Components(i).is_referenced_in_breadcrumb

\* the place of a snippet's declaration among the declarations of its name
IndexPosition(i) ==
    CHOOSE k \in 1..Len(index[out[i].identifier]) :
        index[out[i].identifier][k].id = out[i].declaration.id

Distance(i) == Components(i).declaration_line_distance
Rank(i) == Components(i).declaration_line_distance_rank

\* snippet i comes before snippet j: nearer, or as near and earlier in the index
Precedes(i, j) ==
    \/ Distance(i) < Distance(j)
    \/ Distance(i) = Distance(j) /\ IndexPosition(i) < IndexPosition(j)

(* C24: the snippets of an identifier are ordered by ascending              *)
(* declaration_line_distance, equal distances in index order, and their     *)
(* ranks are 0..n-1 in that order; the distance of a candidate in the       *)
(* cursor's file is |cursor row - row of the item's start| and that of      *)
(* every other candidate, buffer- or file-backed, is 0.                     *)
C24_RankedByDistance ==
    \A n \in Scored :
        /\ {Rank(i) : i \in SnippetsOf(n)} = 0..(Cardinality(SnippetsOf(n)) - 1)
        /\ \A i, j \in SnippetsOf(n) :
            Precedes(i, j) => Rank(i) < Rank(j) /\ i < j
        /\ \A i \in SnippetsOf(n) :
            IF InCursorBuffer(out[i].declaration)
            THEN Distance(i) = Abs(CursorRow - RowAt(out[i].declaration.item_range[1]))
            ELSE Distance(i) = 0

\* a returned call with a file-backed and an other-buffer candidate of one
\* identifier, and two candidates of the cursor's file that the distances
\* put in the opposite of their index order
C24_Witness ==
    /\ pc = "done"
    /\ \E n \in Scored :
        /\ \E i, j \in SnippetsOf(n) :
            /\ out[i].declaration.kind = "File"
            /\ out[j].declaration.kind = "Buffer"
            /\ ~InCursorBuffer(out[j].declaration)
            /\ Distance(i) = Distance(j)
        /\ \E i, j \in SnippetsOf(n) :
            /\ InCursorBuffer(out[i].declaration)
            /\ InCursorBuffer(out[j].declaration)
            /\ IndexPosition(i) < IndexPosition(j)
            /\ Rank(j) < Rank(i)

SameFileSnippets(n) == {i \in SnippetsOf(n) : Components(i).is_same_file}

(* C25, as stated: the rank of a same-file candidate is its rank among the  *)
(* same-file candidates of its identifier only, so the nearest of them has  *)
(* rank 0 whatever other-file candidates there are.                         *)
C25_RankAmongSameFile ==
    \A n \in Scored : \A i \in SameFileSnippets(n) :
        Rank(i) = Cardinality({j \in SameFileSnippets(n) : Precedes(j, i)})

(* C25, amended: the rank of a same-file candidate is its rank among all    *)
(* surviving candidates of its identifier: the number of survivors that     *)
(* are nearer or as near and earlier in the index, the other-file ones with *)
(* their distance 0 among them; a same-file candidate on another row than   *)
(* the cursor ranks behind every other-file survivor.                       *)
C25_RankAmongAllSurvivors ==
    \A n \in Scored : \A i \in SameFileSnippets(n) :
        /\ Rank(i) = Cardinality({j \in SnippetsOf(n) : Precedes(j, i)})
        /\ Distance(i) > 0 =>
            Rank(i) >= Cardinality(SnippetsOf(n) \ SameFileSnippets(n))

\* the nearest same-file candidate of an identifier has rank 2, behind two
\* other-file candidates that come after it in the index
C25_Witness ==
    /\ pc = "done"
    /\ \E n \in Scored : \E i \in SameFileSnippets(n) :
        /\ \A j \in SameFileSnippets(n) : j = i \/ Precedes(i, j)
        /\ Rank(i) = 2
        /\ \A j \in SnippetsOf(n) \ SameFileSnippets(n) :
            IndexPosition(i) < IndexPosition(j)

\* the declarations of the index, of whatever name, in the file of snippet i
DeclarationsInFileOf(i) ==
    {<<n, k>> \in Identifiers \X (1..(3 + BulkCount)) :
        /\ k <= Len(index[n])
        /\ DeclarationFile(index[n][k]) = DeclarationFile(out[i].declaration)}

(* C26, as stated: same_file_declaration_count is the number of             *)
(* declarations in the candidate's file that share the referenced           *)
(* identifier, so a same-file candidate declared once has the count 1       *)
(* (accuracy 0.5) however many other declarations its file contains.        *)
C26_CountSharingIdentifier ==
    \A i \in 1..Len(out) :
        Components(i).same_file_declaration_count =
            Cardinality({d \in DeclarationsInFileOf(i) : d[1] = out[i].identifier})

(* C26, amended: same_file_declaration_count is the number of all           *)
(* declarations the index holds for the candidate's file, whatever their    *)
(* identifier; a same-file candidate declared once in a file of k           *)
(* declarations has the count k.                                            *)
C26_CountWholeFile ==
    \A i \in 1..Len(out) :
        Components(i).same_file_declaration_count = Cardinality(DeclarationsInFileOf(i))

\* a returned same-file snippet whose identifier is declared once in the
\* cursor's file, which holds three declarations
C26_Witness ==
    /\ pc = "done"
    /\ \E i \in 1..Len(out) :
        /\ Components(i).is_same_file
        /\ Cardinality({d \in DeclarationsInFileOf(i) : d[1] = out[i].identifier}) = 1
        /\ Components(i).same_file_declaration_count = 3

(***************************************************************************)
(* MentionUri (acp_thread/src/mention.rs): parse and to_uri.  A string is  *)
(* a tuple of one-character strings, as the texts above.  mentions is a    *)
(* chain: a URI string or a MentionUri value, followed by what parse and   *)
(* to_uri made of it in turn.                                              *)
(***************************************************************************)

\* the longest chain of conversions followed from one input
MaxChain == 4

DecimalDigits == <<"0", "1", "2", "3", "4", "5", "6", "7", "8", "9">>

IsDigit(c) == \E d \in 1..10 : DecimalDigits[d] = c

DigitValue(c) == (CHOOSE d \in 1..10 : DecimalDigits[d] = c) - 1

\* the first position of the character in the string, 0 when it is absent
Position(string, c) ==
    IF \E i \in 1..Len(string) : string[i] = c
    THEN CHOOSE i \in 1..Len(string) :
            /\ string[i] = c
            /\ \A j \in 1..(i - 1) : string[j] # c
    ELSE 0

DropChars(string, n) == SubSeq(string, n + 1, Len(string))

\* str::strip_prefix
strip_prefix(string, prefix) ==
    IF Len(string) >= Len(prefix) /\ SubSeq(string, 1, Len(prefix)) = prefix
    THEN Some(DropChars(string, Len(prefix)))
    ELSE None

\* str::split_once
split_once(string, c) ==
    LET at == Position(string, c) IN
    IF at = 0 THEN None
    ELSE Some(<<SubSeq(string, 1, at - 1), DropChars(string, at)>>)

\* str::split: the pieces between the separators
RECURSIVE SplitAt(_, _)
SplitAt(string, c) ==
    LET at == Position(string, c) IN
    IF at = 0 THEN <<string>>
    ELSE <<SubSeq(string, 1, at - 1)>> \o SplitAt(DropChars(string, at), c)

RECURSIVE DecimalValue(_)
DecimalValue(digits) ==
    IF digits = <<>> THEN 0
    ELSE DecimalValue(SubSeq(digits, 1, Len(digits) - 1)) * 10
            + DigitValue(digits[Len(digits)])

\* str::parse::<u32>: an optional "+", then one or more decimal digits;
\* leading zeros are read over.  The fragments drawn below have at most two
\* digits, so the overflow error of longer numbers does not arise.
parse_u32(string) ==
    LET digits == IF string # <<>> /\ string[1] = "+" THEN Tail(string) ELSE string IN
    IF digits = <<>> \/ \E i \in 1..Len(digits) : ~IsDigit(digits[i])
    THEN None
    ELSE Some(DecimalValue(digits))

\* u32::checked_sub
checked_sub(a, b) == IF a >= b THEN Some(a - b) ELSE None

\* Display for u32: decimal without sign or leading zeros
RECURSIVE Decimal(_)
Decimal(n) ==
    IF n < 10 THEN <<DecimalDigits[n + 1]>>
    ELSE Decimal(n \div 10) \o <<DecimalDigits[(n % 10) + 1]>>

\* the escapes that occur in the strings drawn below: <<hex, hex, character>>
Escapes == {<<"2", "0", " ">>, <<"2", "6", "&">>}

\* the url crate stores a path with its spaces percent-encoded
RECURSIVE PercentEncodePath(_)
PercentEncodePath(string) ==
    IF string = <<>> THEN <<>>
    ELSE (IF string[1] = " " THEN <<"%", "2", "0">> ELSE <<string[1]>>)
            \o PercentEncodePath(Tail(string))

\* form_urlencoded decoding of a query name or value: "+" is a space and
\* %XX is the escaped character
RECURSIVE FormDecode(_)
FormDecode(string) ==
    IF string = <<>> THEN <<>>
    ELSE IF string[1] = "+" THEN <<" ">> \o FormDecode(Tail(string))
    ELSE IF /\ string[1] = "%"
            /\ Len(string) >= 3
            /\ \E e \in Escapes : e[1] = string[2] /\ e[2] = string[3]
         THEN <<(CHOOSE e \in Escapes : e[1] = string[2] /\ e[2] = string[3])[3]>>
                \o FormDecode(DropChars(string, 3))
    ELSE <<string[1]>> \o FormDecode(Tail(string))

SpecialSchemes == {<<"f", "i", "l", "e">>, <<"h", "t", "t", "p">>}

\* url::Url::parse of an absolute URL: scheme ":" "//" host path, then
\* "?" query, then "#" fragment; a string without a scheme is an error
Url_parse(input) ==
    LET colon == Position(input, ":") IN
    IF colon <= 1 THEN None
    ELSE
        LET scheme == SubSeq(input, 1, colon - 1)
            rest == DropChars(input, colon)
            hash == Position(rest, "#")
            before_fragment == IF hash = 0 THEN rest ELSE SubSeq(rest, 1, hash - 1)
            mark == Position(before_fragment, "?")
            hierarchy == IF mark = 0 THEN before_fragment
                         ELSE SubSeq(before_fragment, 1, mark - 1)
            after_slashes == strip_prefix(hierarchy, <<"/", "/">>)
            slash == IF after_slashes = None THEN 0
                     ELSE Position(Unwrap(after_slashes), "/")
            host == IF after_slashes = None THEN <<>>
                    ELSE IF slash = 0 THEN Unwrap(after_slashes)
                    ELSE SubSeq(Unwrap(after_slashes), 1, slash - 1)
            raw_path == IF after_slashes = None THEN hierarchy
                        ELSE IF slash = 0 THEN <<>>
                        ELSE DropChars(Unwrap(after_slashes), slash - 1)
        IN  Some([scheme |-> scheme,
                  host |-> host,
                  path |-> IF raw_path = <<>> /\ scheme \in SpecialSchemes
                           THEN <<"/">>
                           ELSE PercentEncodePath(raw_path),
                  query |-> IF mark = 0 THEN None
                            ELSE Some(DropChars(before_fragment, mark)),
                  fragment |-> IF hash = 0 THEN None
                               ELSE Some(DropChars(rest, hash))])

\* one name=value piece of a query, decoded
QueryPair(piece) ==
    LET split == split_once(piece, "=") IN
    IF split = None THEN <<FormDecode(piece), <<>>>>
    ELSE <<FormDecode(Unwrap(split)[1]), FormDecode(Unwrap(split)[2])>>

RECURSIVE QueryPairsOf(_)
QueryPairsOf(pieces) ==
    IF pieces = <<>> THEN <<>>
    ELSE (IF Head(pieces) = <<>> THEN <<>> ELSE <<QueryPair(Head(pieces))>>)
            \o QueryPairsOf(Tail(pieces))

\* Url::query_pairs
query_pairs(url) ==
    IF url.query = None THEN <<>>
    ELSE QueryPairsOf(SplitAt(Unwrap(url.query), "&"))

\* the MentionUri variants, and the two other things a chain holds
File(path) == [variant |-> "File", path |-> path]
Symbol(path, name, line_range) ==
    [variant |-> "Symbol", path |-> path, name |-> name, line_range |-> line_range]
Selection(path, line_range) ==
    [variant |-> "Selection", path |-> path, line_range |-> line_range]
Thread(id) == [variant |-> "Thread", id |-> id]
TextThread(path) == [variant |-> "TextThread", path |-> path]
Rule(id) == [variant |-> "Rule", id |-> id]
Err(context) == [variant |-> "Err", context |-> context]
Uri(string) == [variant |-> "Uri", string |-> string]

\* the line range of a fragment "L<start>:<end>", or the error
LineRangeOf(fragment) ==
    LET range == strip_prefix(fragment, <<"L">>) IN
    IF range = None THEN Err("Line range must start with L")
    ELSE
        LET split == split_once(Unwrap(range), ":") IN
        IF split = None THEN Err("Line range must use colon as separator")
        ELSE
            LET start == parse_u32(Unwrap(split)[1])
                end == parse_u32(Unwrap(split)[2])
            IN  IF start = None THEN Err("Parsing line range start")
                ELSE IF checked_sub(Unwrap(start), 1) = None
                     THEN Err("Line numbers should be 1-based")
                ELSE IF end = None THEN Err("Parsing line range end")
                ELSE IF checked_sub(Unwrap(end), 1) = None
                     THEN Err("Line numbers should be 1-based")
                ELSE [start |-> Unwrap(checked_sub(Unwrap(start), 1)),
                      end |-> Unwrap(checked_sub(Unwrap(end), 1))]

IsErr(result) == "variant" \in DOMAIN result /\ result.variant = "Err"

\* MentionUri::parse
parse(input) ==
    LET parsed == Url_parse(input) IN
    IF parsed = None THEN Err("url")
    ELSE
        LET url == Unwrap(parsed)
            path == url.path
        IN
        IF url.scheme = <<"f", "i", "l", "e">> THEN
            IF url.fragment # None THEN
                LET line_range == LineRangeOf(Unwrap(url.fragment))
                    pairs == query_pairs(url)
                IN  IF IsErr(line_range) THEN line_range
                    ELSE IF pairs = <<>> THEN Selection(path, line_range)
                    ELSE IF Len(pairs) = 1 THEN
                        IF pairs[1][1] # <<"s", "y", "m", "b", "o", "l">>
                        THEN Err("invalid query parameter")
                        ELSE Symbol(path, pairs[1][2], line_range)
                    ELSE Err("too many query pairs")
            ELSE File(path)
        ELSE IF url.scheme = <<"z", "e", "d">> THEN
            IF strip_prefix(path, <<"/", "a", "g", "e", "n", "t", "/", "t", "h", "r", "e", "a", "d", "/">>) # None
            THEN Thread(Unwrap(strip_prefix(path, <<"/", "a", "g", "e", "n", "t", "/", "t", "h", "r", "e", "a", "d", "/">>)))
            ELSE IF strip_prefix(path, <<"/", "a", "g", "e", "n", "t", "/", "r", "u", "l", "e", "/">>) # None
            THEN Rule(Unwrap(strip_prefix(path, <<"/", "a", "g", "e", "n", "t", "/", "r", "u", "l", "e", "/">>)))
            ELSE Err("invalid zed url")
        ELSE Err("unrecognized scheme")

\* MentionUri::to_uri
to_uri(mention) ==
    CASE mention.variant = "File" -> <<"f", "i", "l", "e", ":", "/", "/">> \o mention.path
      [] mention.variant = "Symbol" ->
            <<"f", "i", "l", "e", ":", "/", "/">> \o mention.path \o <<"?", "s", "y", "m", "b", "o", "l", "=">> \o mention.name
                \o <<"#", "L">> \o Decimal(mention.line_range.start + 1)
                \o <<":">> \o Decimal(mention.line_range.end + 1)
      [] mention.variant = "Selection" ->
            <<"f", "i", "l", "e", ":", "/", "/">> \o mention.path
                \o <<"#", "L">> \o Decimal(mention.line_range.start + 1)
                \o <<":">> \o Decimal(mention.line_range.end + 1)
      [] mention.variant = "Thread" -> <<"z", "e", "d", ":", "/", "/", "/", "a", "g", "e", "n", "t", "/", "t", "h", "r", "e", "a", "d", "/">> \o mention.id
      [] mention.variant = "TextThread" ->
            <<"z", "e", "d", ":", "/", "/", "/", "a", "g", "e", "n", "t", "/", "t", "e", "x", "t", "-", "t", "h", "r", "e", "a", "d", "/">> \o mention.path
      [] mention.variant = "Rule" -> <<"z", "e", "d", ":", "/", "/", "/", "a", "g", "e", "n", "t", "/", "r", "u", "l", "e", "/">> \o mention.id

\* the URI strings a chain starts from: scheme and host, path, query, fragment
UriPrefixes == {<<"f", "i", "l", "e", ":", "/", "/">>, <<"f", "i", "l", "e", ":", "/", "/", "h">>, <<"z", "e", "d", ":", "/", "/">>, <<"h", "t", "t", "p", ":", "/", "/", "h">>}

UriPaths ==
    {<<"/", "a", ".", "r", "s">>, <<"/", "a", " ", "b">>, <<"/", "a", "g", "e", "n", "t", "/", "t", "h", "r", "e", "a", "d", "/", "t">>, <<"/", "a", "g", "e", "n", "t", "/", "r", "u", "l", "e", "/", "m", "y", "_", "r", "u", "l", "e">>,
     <<"/", "a", "g", "e", "n", "t", "/", "t", "e", "x", "t", "-", "t", "h", "r", "e", "a", "d", "/", "p">>, <<"/", "a", "g", "e", "n", "t", "/", "u", "n", "k", "n", "o", "w", "n", "/", "t", "e", "s", "t">>, <<>>}

UriQueries ==
    {<<>>, <<"?", "s", "y", "m", "b", "o", "l", "=", "S">>, <<"?", "s", "y", "m", "b", "o", "l", "=", "a", "%", "2", "6", "b">>, <<"?", "i", "n", "v", "a", "l", "i", "d", "=", "t", "e", "s", "t">>,
     <<"?", "s", "y", "m", "b", "o", "l", "=", "t", "e", "s", "t", "&", "a", "n", "o", "t", "h", "e", "r", "=", "p", "a", "r", "a", "m">>}

UriFragments ==
    {<<>>, <<"#", "L", "1", ":", "2">>, <<"#", "L", "1", "0", ":", "2", "0">>, <<"#", "L", "0", "7", ":", "9">>, <<"#", "L", "+", "1", ":", "2">>, <<"#", "L", "0", ":", "1", "0">>,
     <<"#", "L", "1", ":", "0">>, <<"#", "1", "0", ":", "2", "0">>, <<"#", "L", "1", "0", "2", "0">>, <<"#", "L", "1", "0", ":", "a", "b", "c">>, <<"#", "L", "a", "b", "c", ":", "2", "0">>}

UriStrings ==
    {prefix \o path \o query \o fragment :
        prefix \in UriPrefixes, path \in UriPaths,
        query \in UriQueries, fragment \in UriFragments}

\* the MentionUri values a chain starts from: absolute paths, ids, line ranges
MentionPaths == {<<"/", "a", ".", "r", "s">>, <<"/", "p", "a", "t", "h", "/", "t", "o", "/", "f", "i", "l", "e", ".", "r", "s">>}
MentionIds == {<<"s", "e", "s", "s", "i", "o", "n", "1", "2", "3">>, <<"m", "y", "_", "r", "u", "l", "e">>}
MentionLineRanges == [start : {0, 4, 9}, end : {0, 14, 99}]

MentionUris ==
    {File(path) : path \in MentionPaths}
    \cup {Symbol(path, name, line_range) :
            path \in MentionPaths, name \in {<<"M", "y", "S", "y", "m", "b", "o", "l">>},
            line_range \in MentionLineRanges}
    \cup {Selection(path, line_range) :
            path \in MentionPaths, line_range \in MentionLineRanges}
    \cup {Thread(id) : id \in MentionIds}
    \cup {TextThread(path) : path \in MentionPaths}
    \cup {Rule(id) : id \in MentionIds}

InitMention ==
    /\ mentions \in {<<Uri(string)>> : string \in UriStrings}
                        \cup {<<mention>> : mention \in MentionUris}
    /\ pc = "idle"
    /\ index = [n \in Identifiers |-> <<>>]
    /\ buffers = <<>>
    /\ request = IdleRequest
    /\ remaining = {}
    /\ out = <<>>
    /\ NoScore
    /\ NoDeclaration
    /\ NoIndexing
    /\ NoRun
    /\ NoMatching
    /\ NoSuperseded

LastMention == mentions[Len(mentions)]

\* MentionUri::parse(input) on the string the chain ends with
Parse ==
    /\ Len(mentions) < MaxChain
    /\ LastMention.variant = "Uri"
    /\ mentions' = Append(mentions, parse(LastMention.string))
    /\ UNCHANGED <<scoringVars, scoreVars, declarationVars, indexingVars,
                   runVars, fuzzyVars, supersededVars>>

\* mention.to_uri() on the value the chain ends with
ToUri ==
    /\ Len(mentions) < MaxChain
    /\ LastMention.variant \notin {"Uri", "Err"}
    /\ mentions' = Append(mentions, Uri(to_uri(LastMention)))
    /\ UNCHANGED <<scoringVars, scoreVars, declarationVars, indexingVars,
                   runVars, fuzzyVars, supersededVars>>

NextMention == Parse \/ ToUri

SpecMention == InitMention /\ [][NextMention]_vars

IsUri(i) == mentions[i].variant = "Uri"
IsMention(i) == mentions[i].variant \notin {"Uri", "Err"}

(* C22: whenever parse accepts a URI string, to_uri of the value it returns
   is that string again, unchanged. *)
C22_UriRoundTrip ==
    \A i \in 1..Len(mentions) :
        (IsUri(i) /\ i + 2 <= Len(mentions) /\ IsMention(i + 1)) =>
            mentions[i + 2] = mentions[i]

(* C29: whenever to_uri writes a MentionUri value of any variant, parse
   accepts the string and returns that value again. *)
C29_MentionRoundTrip ==
    \A i \in 1..Len(mentions) :
        (IsMention(i) /\ i + 2 <= Len(mentions)) =>
            mentions[i + 2] = mentions[i]


----------------------------------------------------------------------------
(* fuzzy/src/paths.rs: match_path_sets.  A candidate set is given by its   *)
(* length; candidate <<k, i>> is candidate i (from 0) of set k (from 1).   *)
(* Every worker of executor.scoped runs the loop over the candidate sets   *)
(* for its own segment; the workers' steps interleave.                     *)

\* the most candidate sets, candidates per set and CPUs of the executor
MaxSets == 3
MaxSetLen == 3
MaxCpus == 3

\* usize::div_ceil
div_ceil(a, b) == (a + b - 1) \div b

RECURSIVE SumLens(_)
SumLens(sets) == IF sets = <<>> THEN 0 ELSE Head(sets) + SumLens(Tail(sets))

\* candidate_sets.iter().map(|s| s.len()).sum()
path_count == SumLens(candidate_sets)

segment_size == div_ceil(path_count, num_cpus)
segment_start(segment_idx) == segment_idx * segment_size
segment_end(segment_idx) == segment_start(segment_idx) + segment_size

\* a worker before the candidate set it looks at next
AtSet(k, tree_start, examined) ==
    [at |-> "set", set |-> k, tree_start |-> tree_start, next |-> 0, end |-> 0,
     examined |-> examined]

\* a worker inside `for c in candidates`, before candidate `next` of set k
AtCandidate(k, tree_start, next, end, examined) ==
    [at |-> "candidate", set |-> k, tree_start |-> tree_start, next |-> next,
     end |-> end, examined |-> examined]

\* a worker whose future has completed
Finished(worker) == [worker EXCEPT !.at = "finished"]

\* the end of the loop body: `if tree_end >= segment_end { break; }` and
\* `tree_start = tree_end`
AfterCandidates(segment_idx, worker) ==
    IF worker.tree_start + candidate_sets[worker.set] >= segment_end(segment_idx)
    THEN Finished(worker)
    ELSE AtSet(worker.set + 1, worker.tree_start + candidate_sets[worker.set],
               worker.examined)

MatchInputs ==
    UNION {[1..n -> 0..MaxSetLen] : n \in 1..MaxSets}

InitMatch ==
    /\ candidate_sets \in MatchInputs
    /\ num_cpus \in 1..MaxCpus
    /\ segments = <<>>
    /\ cancel_flag = FALSE
    /\ returned = None
    /\ pc = "start"
    /\ index = [n \in Identifiers |-> <<>>]
    /\ buffers = <<>>
    /\ request = IdleRequest
    /\ remaining = {}
    /\ out = <<>>
    /\ NoScore
    /\ NoDeclaration
    /\ NoIndexing
    /\ NoRun
    /\ NoMention
    /\ NoSuperseded

\* match_path_sets up to executor.scoped: an empty input returns at once,
\* otherwise one worker per segment is spawned
SpawnSegments ==
    /\ pc = "start"
    /\ IF path_count = 0
       THEN /\ pc' = "done"
            /\ returned' = Some({})
            /\ UNCHANGED <<num_cpus, segments>>
       ELSE /\ pc' = "searching"
            /\ num_cpus' = Min(num_cpus, path_count)
            /\ segments' = [segment_idx \in 0..(Min(num_cpus, path_count) - 1) |->
                                AtSet(1, 0, <<>>)]
            /\ UNCHANGED returned
    /\ UNCHANGED <<candidate_sets, cancel_flag, index, buffers, request, remaining, out,
                   scoreVars, declarationVars, indexingVars, runVars, mentionVars,
                   supersededVars>>

\* one pass of `'outer: for candidate_set in candidate_sets` up to the loop
\* over the candidates
EnterCandidateSet(segment_idx) ==
    /\ pc = "searching"
    /\ segments[segment_idx].at = "set"
    /\ LET worker == segments[segment_idx]
           tree_start == worker.tree_start
       IN  IF worker.set > Len(candidate_sets)
           THEN segments' = [segments EXCEPT ![segment_idx] = Finished(worker)]
           ELSE LET tree_end == tree_start + candidate_sets[worker.set]
                    start == Max(tree_start, segment_start(segment_idx)) - tree_start
                    end == Min(tree_end, segment_end(segment_idx)) - tree_start
                IN  IF /\ segment_start(segment_idx) <= tree_start
                       /\ tree_start < segment_end(segment_idx)
                       /\ start < end
                    THEN segments' = [segments EXCEPT ![segment_idx] =
                            AtCandidate(worker.set, tree_start, start, end,
                                        worker.examined)]
                    ELSE segments' = [segments EXCEPT ![segment_idx] =
                            AfterCandidates(segment_idx, worker)]
    /\ UNCHANGED <<candidate_sets, num_cpus, cancel_flag, returned, scoringVars,
                   scoreVars, declarationVars, indexingVars, runVars, mentionVars,
                   supersededVars>>

\* one pass of `for c in candidates`: the cancel flag is read, then the
\* candidate is matched
ExamineCandidate(segment_idx) ==
    /\ pc = "searching"
    /\ segments[segment_idx].at = "candidate"
    /\ LET worker == segments[segment_idx]
           examined == Append(worker.examined, <<worker.set, worker.next>>)
       IN  IF cancel_flag
           THEN segments' = [segments EXCEPT ![segment_idx] = Finished(worker)]
           ELSE IF worker.next + 1 < worker.end
           THEN segments' = [segments EXCEPT ![segment_idx] =
                    AtCandidate(worker.set, worker.tree_start, worker.next + 1,
                                worker.end, examined)]
           ELSE segments' = [segments EXCEPT ![segment_idx] =
                    AfterCandidates(segment_idx,
                                    [worker EXCEPT !.examined = examined])]
    /\ UNCHANGED <<candidate_sets, num_cpus, cancel_flag, returned, scoringVars,
                   scoreVars, declarationVars, indexingVars, runVars, mentionVars,
                   supersededVars>>

\* the caller sets the cancel flag while the search runs
Cancel ==
    /\ pc = "searching"
    /\ ~cancel_flag
    /\ cancel_flag' = TRUE
    /\ UNCHANGED <<candidate_sets, num_cpus, segments, returned, scoringVars,
                   scoreVars, declarationVars, indexingVars, runVars, mentionVars,
                   supersededVars>>

ExaminedBy(segment_idx) ==
    {segments[segment_idx].examined[i] : i \in 1..Len(segments[segment_idx].examined)}

\* after .await: a cancelled search returns nothing, otherwise the result is
\* drawn from segment_results.concat()
JoinSegments ==
    /\ pc = "searching"
    /\ \A segment_idx \in DOMAIN segments : segments[segment_idx].at = "finished"
    /\ pc' = "done"
    /\ returned' = IF cancel_flag THEN Some({})
                   ELSE Some(UNION {ExaminedBy(segment_idx) : segment_idx \in DOMAIN segments})
    /\ UNCHANGED <<candidate_sets, num_cpus, segments, cancel_flag, index, buffers,
                   request, remaining, out, scoreVars, declarationVars, indexingVars,
                   runVars, mentionVars, supersededVars>>

NextMatch ==
    \/ SpawnSegments
    \/ \E segment_idx \in DOMAIN segments : EnterCandidateSet(segment_idx)
    \/ \E segment_idx \in DOMAIN segments : ExamineCandidate(segment_idx)
    \/ Cancel
    \/ JoinSegments

SpecMatch == InitMatch /\ [][NextMatch]_vars

\* every candidate of every set
AllCandidates ==
    {<<k, i>> \in (1..MaxSets) \X (0..(MaxSetLen - 1)) :
        k <= Len(candidate_sets) /\ i < candidate_sets[k]}

\* how often the workers examined the candidate
TimesExamined(candidate) ==
    Cardinality({<<segment_idx, i>> \in (DOMAIN segments) \X (1..(MaxSets * MaxSetLen)) :
        /\ i <= Len(segments[segment_idx].examined)
        /\ segments[segment_idx].examined[i] = candidate})

(* C30: when the cancel flag was never set and all segment workers have     *)
(* finished, every candidate of every set has been examined by exactly one  *)
(* worker, whatever the number of workers and the lengths of the sets.      *)
C30_SegmentsPartitionCandidates ==
    (pc = "done" /\ ~cancel_flag) =>
        \A candidate \in AllCandidates : TimesExamined(candidate) = 1

----------------------------------------------------------------------------
(* scored_declaration.rs: scored_snippets of the superseded variant, run   *)
(* beside the current one on the same index, buffers and request           *)

\* Declaration::project_entry_id: a released buffer has none
project_entry_id(declaration, bufs) ==
    IF declaration.kind = "File" THEN Some(declaration.project_entry_id)
    ELSE IF bufs[declaration.buffer].alive THEN Some(declaration.buffer)
    ELSE None

\* the number of distinct project entries among the definitions
total_file_count(definitions, bufs) ==
    Cardinality({Unwrap(project_entry_id(definitions[i], bufs)) :
        i \in {j \in 1..Len(definitions) :
                    project_entry_id(definitions[j], bufs) # None}})

\* the `references: Vec<Reference>` argument: the references of the request
ReferenceList(req) ==
    LET of(n) ==
            IF n \in DOMAIN req.identifier_to_references
            THEN [j \in 1..Len(req.identifier_to_references[n]) |->
                    [identifier |-> n,
                     start |-> req.identifier_to_references[n][j].start,
                     region |-> req.identifier_to_references[n][j].region]]
            ELSE <<>>
    IN  of("a") \o of("b")

\* for reference in references { map.entry(identifier).or_insert_with(Vec::new).push(reference) }
GroupByIdentifier(references) ==
    [n \in {references[i].identifier : i \in 1..Len(references)} |->
        SelectSeq(references, LAMBDA r : r.identifier = n)]

\* the results of score_snippet for the identifier's candidates, in rank order
SupersededIdentifierResults(identifier, references, idx, req, bufs) ==
    LET definitions == declarations_for_identifier(idx, identifier)
        definition_count == Len(definitions)
        definition_file_count == total_file_count(definitions, bufs)
        ranked == SortedByDistance(FilterMapCandidates(definitions, req, bufs))
        containing_range_identifier_occurrences == WithinString(req.excerpt_body)
        adjacent_identifier_occurrences == WithinString(AdjacentText(req))
        cursor_row == RowOfOffset(req.current_text, req.cursor_offset)
    IN  [rank \in 1..Len(ranked) |->
            superseded_score_snippet(identifier, references, ranked[rank].declaration,
                          ranked[rank].is_same_file, ranked[rank].distance, rank - 1,
                          file_declaration_count(idx, ranked[rank].declaration),
                          definition_count, definition_file_count,
                          containing_range_identifier_occurrences,
                          adjacent_identifier_occurrences, cursor_row,
                          req.current_text, bufs)]

InitSuperseded ==
    /\ index \in Indexes
    /\ buffers \in BufferStates
    /\ request \in Requests
    /\ pc = "scoring"
    /\ remaining = DOMAIN request.identifier_to_references
    /\ out = <<>>
    /\ superseded_pc = "scoring"
    /\ superseded_remaining = DOMAIN GroupByIdentifier(ReferenceList(request))
    /\ superseded_out = <<>>
    /\ NoScore
    /\ NoDeclaration
    /\ NoIndexing
    /\ NoRun
    /\ NoMention
    /\ NoMatching

\* one step of the superseded flat_map over the grouped references
SupersededScoreIdentifier(identifier) ==
    /\ superseded_pc = "scoring"
    /\ identifier \in superseded_remaining
    /\ LET results == SupersededIdentifierResults(identifier,
                          GroupByIdentifier(ReferenceList(request))[identifier],
                          index, request, buffers)
       IN  IF \E i \in 1..Len(results) : results[i].panicked
           THEN /\ superseded_pc' = "panicked"
                /\ UNCHANGED <<superseded_remaining, superseded_out>>
           ELSE /\ superseded_out' = superseded_out \o FlattenOptions(results)
                /\ superseded_remaining' = superseded_remaining \ {identifier}
                /\ superseded_pc' = superseded_pc
    /\ UNCHANGED <<scoringVars, scoreVars, declarationVars, indexingVars,
                   runVars, mentionVars, fuzzyVars>>

\* .flatten().collect(): the superseded call returns superseded_out
SupersededReturn ==
    /\ superseded_pc = "scoring"
    /\ superseded_remaining = {}
    /\ superseded_pc' = "done"
    /\ UNCHANGED <<scoringVars, scoreVars, declarationVars, indexingVars,
                   runVars, mentionVars, fuzzyVars,
                   superseded_remaining, superseded_out>>

NextSuperseded ==
    \/ \E identifier \in Identifiers : ScoreIdentifier(identifier)
    \/ Return
    \/ \E identifier \in Identifiers : SupersededScoreIdentifier(identifier)
    \/ SupersededReturn

SpecSuperseded == InitSuperseded /\ [][NextSuperseded]_vars

\* identifiers the superseded call has scored
SupersededScored ==
    IF superseded_pc = "idle" THEN {}
    ELSE DOMAIN GroupByIdentifier(ReferenceList(request)) \ superseded_remaining

SupersededSnippetsOf(n) ==
    {j \in 1..Len(superseded_out) : superseded_out[j].identifier = n}

\* snippet i of the current call and snippet j of the superseded call are
\* for the same identifier and declaration
SamePair(i, j) ==
    /\ out[i].identifier = superseded_out[j].identifier
    /\ out[i].declaration.id = superseded_out[j].declaration.id

\* what the current score would be with the superseded accuracy
WithExtraAccuracy(i, j) ==
    LET self == Components(i)
        accuracy ==
            RAdd(<<1, 2 * self.same_file_declaration_count>>,
                 <<1, 2 * superseded_out[j].score_components.definition_file_count>>)
        distance == ExpectedDistance(self)
        combined == RMul(RMul(RInt(10), accuracy), distance)
    IN  [signature |->
            RMul(combined, self.containing_range_vs_signature_weighted_overlap),
         definition |->
            RMul(RMul(RInt(2), combined), self.containing_range_vs_item_weighted_overlap)]

(* C27: for an identifier both variants have scored, they emit snippets for *)
(* the same declarations with the same is_same_file, distance and rank; the *)
(* signature and definition scores are equal for a candidate of another     *)
(* file, and for a same-file candidate the superseded scores are the        *)
(* current ones computed with 0.5 / definition_file_count added to the      *)
(* accuracy.                                                                *)
C27_SupersededDiffersInAccuracyTerm ==
    \A n \in Scored \cap SupersededScored :
        /\ \A i \in SnippetsOf(n) : \E j \in SupersededSnippetsOf(n) : SamePair(i, j)
        /\ \A j \in SupersededSnippetsOf(n) : \E i \in SnippetsOf(n) : SamePair(i, j)
        /\ \A i \in SnippetsOf(n), j \in SupersededSnippetsOf(n) :
            SamePair(i, j) =>
                LET new == out[i]
                    old == superseded_out[j]
                IN  /\ old.score_components.is_same_file = new.score_components.is_same_file
                    /\ old.score_components.definition_line_distance
                            = new.score_components.declaration_line_distance
                    /\ old.score_components.definition_line_distance_rank
                            = new.score_components.declaration_line_distance_rank
                    /\ ~new.score_components.is_same_file =>
                        /\ REq(old.scores.signature, new.scores.signature)
                        /\ REq(old.scores.definition, new.scores.declaration)
                    /\ new.score_components.is_same_file =>
                        /\ REq(old.scores.signature, WithExtraAccuracy(i, j).signature)
                        /\ REq(old.scores.definition, WithExtraAccuracy(i, j).definition)

\* both calls returned; a same-file candidate got a higher score from the
\* superseded variant, a candidate of another file the same non-zero score,
\* and one candidate overlapping the excerpt was dropped by both
C27_Witness ==
    /\ pc = "done"
    /\ superseded_pc = "done"
    /\ \E i \in 1..Len(out), j \in 1..Len(superseded_out) :
        /\ SamePair(i, j)
        /\ Components(i).is_same_file
        /\ ~RZero(out[i].scores.signature)
        /\ ~RLeq(superseded_out[j].scores.signature, out[i].scores.signature)
    /\ \E i \in 1..Len(out), j \in 1..Len(superseded_out) :
        /\ SamePair(i, j)
        /\ ~Components(i).is_same_file
        /\ ~RZero(out[i].scores.declaration)
        /\ superseded_out[j].score_components.definition_file_count
                < superseded_out[j].score_components.definition_count
    /\ \E n \in Scored : \E d \in Fetched(n) : SelfExcluded(d)

====
